---------------------------- MODULE Spec2Model ----------------------------
(***************************************************************************)
(* Model of the traffic management server (src/app.js): the rule-based     *)
(* signal timing, the camera health tracker, the scheduled refresh cycles  *)
(* and the optimize / detect request handlers.                             *)
(*                                                                         *)
(* The storage collections (mongoose models) are variables holding the     *)
(* stored documents; an awaited storage or network call is a step whose    *)
(* outcome (resolved / rejected) is an input of the action.                *)
(***************************************************************************)
EXTENDS Integers, Sequences, FiniteSets, TLC

(***************************************************************************)
(* Bounds of the model.                                                    *)
(***************************************************************************)
MaxVehicles == 45      \* vehicle_count ranges over 0..MaxVehicles
MaxSpeed == 45         \* avg_speed ranges over 0..MaxSpeed
MaxCongestion == 2     \* congestion_level ranges over 0..MaxCongestion
MaxPasses == 5         \* calls of simulateCameraHealthChecks in one run
MaxFaults == 1         \* rejected storage writes in one run
MaxTicks == 2          \* cron ticks in one run
MaxRequests == 3       \* HTTP requests in one run
MaxLatency == 200      \* a measured latency ranges over 0..MaxLatency (ms)
MaxSubscribes == 1     \* subscribe-intersection events in one run
MaxPublishes == 2      \* Readings posted while clients are connected

(***************************************************************************)
(* Program constants.                                                      *)
(***************************************************************************)
BaseGreen == 45        \* let green_time = 45
BaseRed == 30          \* let red_time = 30
GreenCap == 90         \* Math.min(90, ...)
RedFloor == 20         \* Math.max(20, ...)
GreenFloor == 30       \* Math.max(30, ...)
RedCap == 45           \* Math.min(45, ...)
YellowTime == 3        \* yellow_time: 3
LowSpeed == 20         \* avg_speed < 20
HighSpeed == 40        \* avg_speed > 40
LowSpeedBonus == 10    \* green_time += 10
HighSpeedCut == 5      \* green_time -= 5
RuleConfidencePct == 70   \* confidence: 0.7, in hundredths
ErrorThreshold == 3    \* camera.health.error_count > 3
PoorAbove == 150       \* latency > 150
FairAbove == 100       \* latency > 100
GoodAbove == 60        \* latency > 60
SuccessLatencySpan == 100  \* Math.floor(Math.random() * 100)
SuccessLatencyBase == 30   \* ... + 30
FailureLatencySpan == 300  \* Math.floor(Math.random() * 300)
FailureLatencyBase == 200  \* ... + 200
AnalyticsCountSpan == 25   \* Math.floor(Math.random() * 25)
AnalyticsCountBase == 5    \* ... + 5
MockVehicleSpan == 50  \* Math.floor(Math.random() * 50)
MockVehicleBase == 10  \* ... + 10
LightBelow == 20       \* vehicle_count < 20
ModerateBelow == 35    \* vehicle_count < 35
MockSpeedSpan == 15    \* Math.floor(Math.random() * 15)
LightSpeedBase == 35   \* ... + 35
ModerateSpeedBase == 20   \* ... + 20
HeavySpeedBase == 10   \* ... + 10
MockConfidencePct == 80   \* confidence: 0.8
PredictionCount == 4   \* for (let i = 0; i < 4; i++)
OffsetStep == 15       \* (i + 1) * 15
RushSpan == 20         \* Math.floor(Math.random() * 20)
RushBase == 30         \* ... + 30
MiddaySpan == 15       \* Math.floor(Math.random() * 15)
MiddayBase == 15       \* ... + 15
OffPeakSpan == 10      \* Math.floor(Math.random() * 10)
OffPeakBase == 5       \* ... + 5
HighRiskAbove == 35    \* baseTraffic > 35
MediumRiskAbove == 20  \* baseTraffic > 20

\* An optional value is a sequence of no or one element.
None == <<>>
Some(x) == <<x>>

Min(a, b) == IF a < b THEN a ELSE b
Max(a, b) == IF a > b THEN a ELSE b

VARIABLES
    reading,        \* the Reading handed to optimizeTrafficRules, if any
    plan,           \* what optimizeTrafficRules returned for it, if called
    cameraFeed,     \* CameraFeed collection: camera id -> [status, error_count]
    cameraEvents,   \* CameraEvent collection, in insertion order
    hp,             \* the running call of simulateCameraHealthChecks
    probeLog,       \* per camera: outcomes of the probes applied and saved
    cameraFeed0,    \* the CameraFeed collection when the server started
    passes,         \* calls of simulateCameraHealthChecks started so far
    faults,         \* storage writes rejected so far
    healthEmits,    \* checked_cameras of each camera-health-update emitted
    intersections,  \* Intersection collection: intersection id -> status
    trafficData,    \* TrafficData collection, in insertion (timestamp) order
    signalTimings,  \* SignalTiming collection, in insertion order
    activityLog,    \* ActivityLog collection, in insertion order
    emitted,        \* the messages io.emit sent to every client, in order
    running,        \* the cron callbacks in progress, in the order they began
    finished,       \* what each cron callback that ended did
    ticks,          \* cron ticks fired so far
    response,       \* the response of the last HTTP request, if any
    request,        \* the last HTTP request and the outcomes of its awaits
    requests,       \* HTTP requests handled so far
    latency,        \* the latency a probe measured, if any
    quality,        \* the connection_quality computed for it, if computed
    boot,           \* the position of startServer
    connected,      \* mongoose.connect resolved
    scheduled,      \* setupRealTimeUpdates registered the cron schedules
    listening,      \* server.listen was called
    alive,          \* the Node process has not exited
    sockets,        \* per client: its socket, the rooms joined, its subscribe
    subscribes,     \* subscribe-intersection events handled so far
    rand,           \* what Math.random() and new Date() give a generator call
    generated,      \* what the generator returned for them, if it was called
    posting,        \* manual posts whose Reading is saved and not yet published
    hq,             \* a second call of the tracker, waiting on its await
    ua              \* the call of updateCameraAnalytics

ruleVars == <<reading, plan>>
healthVars == <<cameraFeed, cameraEvents, hp, probeLog, cameraFeed0, passes,
                healthEmits>>
storeVars == <<intersections, trafficData, signalTimings, activityLog, emitted>>
cronVars == <<running, finished, ticks>>
httpVars == <<response, request, requests>>
bootVars == <<boot, connected, scheduled, listening, alive>>
hubVars == <<sockets, subscribes>>
mockVars == <<rand, generated>>
serverVars == <<bootVars, hubVars>>
probeVars == <<latency, quality>>
flightVars == <<posting, hq, ua>>
sideVars == <<probeVars, mockVars, flightVars>>
vars == <<ruleVars, healthVars, faults, storeVars, cronVars, httpVars,
          sideVars, serverVars>>

(***************************************************************************)
(* optimizeTrafficRules (src/app.js 649-685)                               *)
(***************************************************************************)
Readings ==
    [vehicle_count : 0..MaxVehicles,
     congestion_level : 0..MaxCongestion,
     avg_speed : 0..MaxSpeed]

\* A congestion rule whose heavy-traffic branch leaves out Math.min(90, ...).
CongestionGreenUncapped(td) ==
    IF td.congestion_level > 1
    THEN BaseGreen + (td.vehicle_count * 2)
    ELSE IF td.congestion_level = 0
         THEN Max(GreenFloor, BaseGreen - 10)
         ELSE BaseGreen

\* green_time after the congestion rule, before the speed adjustment.
CongestionGreen(td) ==
    IF td.congestion_level > 1
    THEN Min(GreenCap, BaseGreen + (td.vehicle_count * 2))
    ELSE IF td.congestion_level = 0
         THEN Max(GreenFloor, BaseGreen - 10)
         ELSE BaseGreen

\* red_time after the congestion rule (the speed adjustment leaves it alone).
CongestionRed(td) ==
    IF td.congestion_level > 1
    THEN Max(RedFloor, BaseRed - 5)
    ELSE IF td.congestion_level = 0
         THEN Min(RedCap, BaseRed + 5)
         ELSE BaseRed

\* A speed adjustment that takes twice the cut from fast traffic.
SpeedAdjustDeepCut(green, avg_speed) ==
    IF avg_speed < LowSpeed THEN green + LowSpeedBonus
    ELSE IF avg_speed > HighSpeed THEN green - (2 * HighSpeedCut)
    ELSE green

\* A speed adjustment that re-applies the cap after the low-speed bonus.
SpeedAdjustCapped(green, avg_speed) ==
    IF avg_speed < LowSpeed THEN Min(GreenCap, green + LowSpeedBonus)
    ELSE IF avg_speed > HighSpeed THEN green - HighSpeedCut
    ELSE green

\* Speed-based adjustments of green_time.
SpeedAdjust(green, avg_speed) ==
    IF avg_speed < LowSpeed THEN green + LowSpeedBonus
    ELSE IF avg_speed > HighSpeed THEN green - HighSpeedCut
    ELSE green

Reasoning(td) ==
    IF td.congestion_level > 1 THEN "High congestion detected"
    ELSE IF td.congestion_level = 1 THEN "Moderate traffic"
    ELSE "Light traffic"

\* Math.round is the identity on the integers the model draws.
optimizeTrafficRules(td) ==
    [green_time |-> SpeedAdjust(CongestionGreen(td), td.avg_speed),
     yellow_time |-> YellowTime,
     red_time |-> CongestionRed(td),
     confidence |-> RuleConfidencePct,
     source |-> "rule-based",
     reasoning |-> Reasoning(td)]

(***************************************************************************)
(* The values of the parts of the state a specification leaves untouched.  *)
(***************************************************************************)
\* The call record of simulateCameraHealthChecks: loaded are the documents as
\* CameraFeed.find() returned them, docs the same documents with the
\* assignments made so far, idx the position of the for loop, success the
\* outcome of the probe of the camera at idx, returned the value of the last
\* call that returned, if any.
HealthIdle ==
    [pc |-> "idle", loaded |-> <<>>, docs |-> <<>>, idx |-> 0,
     success |-> FALSE, healthUpdates |-> 0, returned |-> None]

AnalyticsIdle ==
    [pc |-> "idle", list |-> <<>>, docs |-> <<>>, idx |-> 0, updatedCount |-> 0,
     written |-> <<>>, returned |-> None]

HealthQuiet ==
    /\ cameraFeed = <<>>
    /\ cameraEvents = <<>>
    /\ hp = HealthIdle
    /\ probeLog = <<>>
    /\ cameraFeed0 = cameraFeed
    /\ passes = 0
    /\ healthEmits = <<>>

RuleQuiet ==
    /\ reading = None
    /\ plan = None

CronQuiet ==
    /\ running = <<>>
    /\ finished = <<>>
    /\ ticks = 0

HttpQuiet ==
    /\ response = None
    /\ request = None
    /\ requests = 0

StoreQuiet ==
    /\ intersections = <<>>
    /\ trafficData = <<>>
    /\ signalTimings = <<>>
    /\ activityLog = <<>>
    /\ emitted = <<>>

MockQuiet ==
    /\ rand = None
    /\ generated = None

FlightQuiet ==
    /\ posting = <<>>
    /\ hq = HealthIdle
    /\ ua = AnalyticsIdle

ProbeQuiet ==
    /\ latency = None
    /\ quality = None

SideQuiet == ProbeQuiet /\ MockQuiet /\ FlightQuiet

\* startServer has run to its end: storage connected, schedules registered,
\* the server listening.
ServerUp ==
    /\ boot = "up"
    /\ connected = TRUE
    /\ scheduled = TRUE
    /\ listening = TRUE
    /\ alive = TRUE

\* No client has connected.
HubQuiet ==
    /\ sockets = <<>>
    /\ subscribes = 0

ServerQuiet == ServerUp /\ HubQuiet

(***************************************************************************)
(* Rule specification: every Reading is handed to optimizeTrafficRules.    *)
(***************************************************************************)
InitRules ==
    /\ reading \in {Some(td) : td \in Readings}
    /\ plan = None
    /\ HealthQuiet
    /\ faults = 0
    /\ StoreQuiet
    /\ CronQuiet
    /\ HttpQuiet
    /\ SideQuiet
    /\ ServerQuiet

\* const optimization = optimizeTrafficRules(trafficData)
ApplyRules ==
    /\ plan = None
    /\ plan' = Some(optimizeTrafficRules(reading[1]))
    /\ UNCHANGED <<reading, healthVars, faults, storeVars, cronVars, httpVars,
                   sideVars, serverVars>>

NextRules == ApplyRules

SpecRules == InitRules /\ [][NextRules]_vars

(***************************************************************************)
(* Claims about optimizeTrafficRules, checked under SpecRules.             *)
(***************************************************************************)
ExampleReading ==
    [vehicle_count |-> 40, congestion_level |-> 2, avg_speed |-> 15]

\* C10 as stated: the rule-based green_time never exceeds 90, also after the
\* low-speed +10, and vehicle_count=40, congestion_level=2, avg_speed=15
\* gives green_time=90, red_time=25, yellow_time=3, confidence=0.7.
C10_GreenNeverAbove90 ==
    plan # None =>
        /\ plan[1].green_time <= 90
        /\ reading[1] = ExampleReading =>
              /\ plan[1].green_time = 90
              /\ plan[1].red_time = 25
              /\ plan[1].yellow_time = 3
              /\ plan[1].confidence = 70

\* C10 amended: the 90 cap bounds green_time before the speed adjustment
\* only; the low-speed +10 is added on top, so green_time never exceeds 100,
\* and vehicle_count=40, congestion_level=2, avg_speed=15 gives
\* green_time=100, red_time=25, yellow_time=3, confidence=0.7.
C10_GreenNeverAbove100 ==
    plan # None =>
        /\ plan[1].green_time <= 100
        /\ CongestionGreen(reading[1]) <= 90
        /\ reading[1] = ExampleReading =>
              /\ plan[1].green_time = 100
              /\ plan[1].red_time = 25
              /\ plan[1].yellow_time = 3
              /\ plan[1].confidence = 70

\* C10 witness: the example Reading has been optimized and got green 100.
C10_Witness ==
    /\ plan # None
    /\ reading[1] = ExampleReading
    /\ plan[1].green_time = 100

\* C11: for a Reading with congestion_level > 1 and vehicle_count >= 0 the
\* rule-based green_time before the speed adjustment lies in [45, 90] and
\* red_time is at least 20.
C11_HeavyTrafficBounds ==
    (plan # None /\ reading[1].congestion_level > 1) =>
        /\ CongestionGreen(reading[1]) >= 45
        /\ CongestionGreen(reading[1]) <= 90
        /\ plan[1].green_time
              = SpeedAdjust(CongestionGreen(reading[1]), reading[1].avg_speed)
        /\ plan[1].red_time >= 20

\* C11 witness: a heavy-traffic Reading whose 45 + 2 * vehicle_count is above
\* the cap has been optimized, at a speed that leaves green_time alone.
C11_Witness ==
    /\ plan # None
    /\ reading[1].congestion_level > 1
    /\ reading[1].vehicle_count = 30
    /\ reading[1].avg_speed = 30
    /\ plan[1].green_time = 90
    /\ plan[1].red_time = 25

\* C12: for a Reading with congestion_level = 0 and any avg_speed, green_time
\* is at least 30 and red_time at most 45, after the speed adjustment as well.
C12_LightTrafficBounds ==
    (plan # None /\ reading[1].congestion_level = 0) =>
        /\ CongestionGreen(reading[1]) >= 30
        /\ plan[1].green_time >= 30
        /\ plan[1].red_time <= 45

\* C12 witness: a light-traffic Reading faster than 40 has been optimized and
\* got the smallest green_time, 30.
C12_Witness ==
    /\ plan # None
    /\ reading[1].congestion_level = 0
    /\ reading[1].avg_speed > 40
    /\ plan[1].green_time = 30
    /\ plan[1].red_time = 35

(***************************************************************************)
(* connection_quality of simulateHealthCheck (src/app.js 919-922).         *)
(***************************************************************************)
\* A labelling that takes the good/excellent boundary at 50.
ConnectionQualityEarlyGood(ms) ==
    IF ms > PoorAbove THEN "poor"
    ELSE IF ms > FairAbove THEN "fair"
    ELSE IF ms > 50 THEN "good"
    ELSE "excellent"

\* let quality = 'excellent'; if (latency > 150) ... else if ... else if ...
ConnectionQuality(ms) ==
    IF ms > PoorAbove THEN "poor"
    ELSE IF ms > FairAbove THEN "fair"
    ELSE IF ms > GoodAbove THEN "good"
    ELSE "excellent"

\* Any latency of the bounded range is handed to the labelling.
InitProbe ==
    /\ latency \in {Some(ms) : ms \in 0..MaxLatency}
    /\ quality = None
    /\ MockQuiet
    /\ FlightQuiet
    /\ RuleQuiet
    /\ HealthQuiet
    /\ faults = 0
    /\ StoreQuiet
    /\ CronQuiet
    /\ HttpQuiet
    /\ ServerQuiet

\* Lines 919-922 applied to the measured latency.
LabelLatency ==
    /\ quality = None
    /\ quality' = Some(ConnectionQuality(latency[1]))
    /\ UNCHANGED <<latency, mockVars, flightVars, ruleVars, healthVars, faults, storeVars,
                   cronVars, httpVars, serverVars>>

NextProbe == LabelLatency

SpecProbe == InitProbe /\ [][NextProbe]_vars

\* C16: the label is a function of the latency alone: latency <= 60 gives
\* excellent, 60 < latency <= 100 good, 100 < latency <= 150 fair and
\* latency > 150 poor; 45 is excellent, 70 good, 160 poor.
C16_QualityLabel ==
    quality # None =>
        LET ms == latency[1]
            label == quality[1]
        IN /\ ms <= 60 => label = "excellent"
           /\ (60 < ms /\ ms <= 100) => label = "good"
           /\ (100 < ms /\ ms <= 150) => label = "fair"
           /\ ms > 150 => label = "poor"
           /\ ms = 45 => label = "excellent"
           /\ ms = 70 => label = "good"
           /\ ms = 160 => label = "poor"

\* C16 witness: the boundary latency 60 has been labelled excellent.
C16_Witness ==
    /\ quality = Some("excellent")
    /\ latency = Some(60)

(***************************************************************************)
(* latency and quality of simulateHealthCheck (src/app.js 914-922): the    *)
(* outcome of the probe and the floored random number of lines 916-917 are *)
(* the inputs.                                                             *)
(***************************************************************************)

\* A probe whose successes take as long as 179 ms.
ProbeLatencySlowSuccess(success, draw) ==
    IF success THEN draw + SuccessLatencyBase + 50 ELSE draw + FailureLatencyBase

\* Lines 915-917.
ProbeLatency(success, draw) ==
    IF success THEN draw + SuccessLatencyBase ELSE draw + FailureLatencyBase

\* The outcomes and floored random numbers a probe can get.
ProbeDraws ==
    {[kind |-> "probe", success |-> TRUE, draw |-> d] : d \in 0..(SuccessLatencySpan - 1)}
        \cup {[kind |-> "probe", success |-> FALSE, draw |-> d] :
                 d \in 0..(FailureLatencySpan - 1)}

InitCheck ==
    /\ rand \in {Some(r) : r \in ProbeDraws}
    /\ generated = None
    /\ ProbeQuiet
    /\ FlightQuiet
    /\ RuleQuiet
    /\ HealthQuiet
    /\ faults = 0
    /\ StoreQuiet
    /\ CronQuiet
    /\ HttpQuiet
    /\ ServerQuiet

\* Lines 914-922 for the outcome and the draw of this run.
SimulateHealthCheck ==
    /\ latency = None
    /\ latency' = Some(ProbeLatency(rand[1].success, rand[1].draw))
    /\ quality' = Some(ConnectionQuality(ProbeLatency(rand[1].success, rand[1].draw)))
    /\ UNCHANGED <<mockVars, flightVars, ruleVars, healthVars, faults, storeVars,
                   cronVars, httpVars, serverVars>>

NextCheck == SimulateHealthCheck

SpecCheck == InitCheck /\ [][NextCheck]_vars

\* C33: a failed probe has latency in [200, 499] and is labelled poor; a
\* successful probe has latency in [30, 129] and is not labelled poor.
C33_LatencyByOutcome ==
    latency # None =>
        /\ ~rand[1].success =>
              /\ latency[1] >= 200
              /\ latency[1] <= 499
              /\ quality = Some("poor")
        /\ rand[1].success =>
              /\ latency[1] >= 30
              /\ latency[1] <= 129
              /\ quality # Some("poor")

\* C33 witness: the slowest successful probe, 129 ms, has been labelled
\* fair.
C33_Witness ==
    /\ rand[1].success
    /\ latency = Some(129)
    /\ quality = Some("fair")

(***************************************************************************)
(* Synthetic generators: generateMockTrafficData (src/app.js 687-709) and  *)
(* generateMockPredictions (711-734).  Both are pure but for Math.random() *)
(* and the clock, so the values those gave are inputs: vehicleDraw is      *)
(* Math.floor(Math.random() * 50), speedDraw is                            *)
(* Math.floor(Math.random() * 15), hour is new Date().getHours() and       *)
(* draws[i] is the floored random number of loop iteration i.  Confidences *)
(* are percentages.  The confidence of a prediction, a second random       *)
(* number that nothing else depends on, is left out.                       *)
(***************************************************************************)

\* A tier rule that puts the boundary counts in the lower tier.
MockCongestionInclusive(vehicle_count) ==
    IF vehicle_count <= LightBelow THEN 0
    ELSE IF vehicle_count <= ModerateBelow THEN 1
    ELSE 2

\* Lines 691, 694, 697: the tier of a vehicle count.
MockCongestion(vehicle_count) ==
    IF vehicle_count < LightBelow THEN 0
    ELSE IF vehicle_count < ModerateBelow THEN 1
    ELSE 2

\* Lines 693, 696, 699: what is added to the speed draw in each tier.
MockSpeedBase(congestion_level) ==
    CASE congestion_level = 0 -> LightSpeedBase
      [] congestion_level = 1 -> ModerateSpeedBase
      [] OTHER -> HeavySpeedBase

\* Lines 687-709.
generateMockTrafficData(vehicleDraw, speedDraw) ==
    LET vehicle_count == vehicleDraw + MockVehicleBase
        congestion_level == MockCongestion(vehicle_count)
    IN [vehicle_count |-> vehicle_count,
        avg_speed |-> speedDraw + MockSpeedBase(congestion_level),
        congestion_level |-> congestion_level,
        confidence |-> MockConfidencePct,
        source |-> "mock"]

\* Line 718, 720: the time-of-day bucket of an hour.
HourBucket(hour) ==
    IF (hour >= 7 /\ hour <= 9) \/ (hour >= 17 /\ hour <= 19) THEN "rush"
    ELSE IF hour >= 10 /\ hour <= 16 THEN "midday"
    ELSE "offpeak"

\* Lines 719, 721, 723: the width of the random part in each bucket.
BucketSpan(bucket) ==
    CASE bucket = "rush" -> RushSpan
      [] bucket = "midday" -> MiddaySpan
      [] OTHER -> OffPeakSpan

\* Lines 719, 721, 723: the base volume of each bucket.
BucketBase(bucket) ==
    CASE bucket = "rush" -> RushBase
      [] bucket = "midday" -> MiddayBase
      [] OTHER -> OffPeakBase

\* A risk label whose thresholds are inclusive.
CongestionRiskInclusive(baseTraffic) ==
    IF baseTraffic >= HighRiskAbove THEN "high"
    ELSE IF baseTraffic >= MediumRiskAbove THEN "medium"
    ELSE "low"

\* Line 730.
CongestionRisk(baseTraffic) ==
    IF baseTraffic > HighRiskAbove THEN "high"
    ELSE IF baseTraffic > MediumRiskAbove THEN "medium"
    ELSE "low"

\* Lines 714-731: the estimate pushed by loop iteration i (0-based).
Prediction(i, hour, draw) ==
    LET baseTraffic == draw + BucketBase(HourBucket(hour))
    IN [time_offset |-> (i + 1) * OffsetStep,
        predicted_vehicles |-> baseTraffic,
        congestion_risk |-> CongestionRisk(baseTraffic)]

\* Lines 711-734.  The loop is synchronous, so every iteration reads the
\* same hour.
generateMockPredictions(hour, draws) ==
    [k \in 1..PredictionCount |-> Prediction(k - 1, hour, draws[k])]

\* The floored random numbers one iteration can get in a bucket: both ends
\* of the range and the two draws on either side of each label threshold
\* that the bucket's volumes can cross.
PredictionDraws(bucket) ==
    {d \in 0..(BucketSpan(bucket) - 1) :
        \/ d \in {0, BucketSpan(bucket) - 1}
        \/ d + BucketBase(bucket) \in {HighRiskAbove, HighRiskAbove + 1,
                                       MediumRiskAbove, MediumRiskAbove + 1}}

TrafficDraws ==
    {[kind |-> "traffic", vehicleDraw |-> v, speedDraw |-> s] :
        v \in 0..(MockVehicleSpan - 1), s \in 0..(MockSpeedSpan - 1)}

PredictionInputs ==
    UNION {{[kind |-> "predictions", hour |-> h, draws |-> d] :
              d \in [1..PredictionCount -> PredictionDraws(HourBucket(h))]} :
           h \in 0..23}

InitMock ==
    /\ rand \in {Some(r) : r \in TrafficDraws \cup PredictionInputs}
    /\ generated = None
    /\ ProbeQuiet
    /\ FlightQuiet
    /\ RuleQuiet
    /\ HealthQuiet
    /\ faults = 0
    /\ StoreQuiet
    /\ CronQuiet
    /\ HttpQuiet
    /\ ServerQuiet

\* A call of generateMockTrafficData with the draws of this run.
MockTraffic ==
    /\ generated = None
    /\ rand[1].kind = "traffic"
    /\ generated' = Some(generateMockTrafficData(rand[1].vehicleDraw,
                                                 rand[1].speedDraw))
    /\ UNCHANGED <<rand, probeVars, flightVars, ruleVars, healthVars, faults,
                   storeVars, cronVars, httpVars, serverVars>>

\* A call of generateMockPredictions at the hour and with the draws of this
\* run.
MockPredictions ==
    /\ generated = None
    /\ rand[1].kind = "predictions"
    /\ generated' = Some(generateMockPredictions(rand[1].hour, rand[1].draws))
    /\ UNCHANGED <<rand, probeVars, flightVars, ruleVars, healthVars, faults,
                   storeVars, cronVars, httpVars, serverVars>>

NextMock == MockTraffic \/ MockPredictions

SpecMock == InitMock /\ [][NextMock]_vars

\* Every Reading the generator can return.
MockReadings ==
    {generateMockTrafficData(r.vehicleDraw, r.speedDraw) : r \in TrafficDraws}

MockReturned == generated # None /\ rand[1].kind = "traffic"

\* The part of C27 about one Reading: count in [10, 59], tier by threshold,
\* confidence 0.8, provenance "mock".
MockReadingShape(r) ==
    /\ r.vehicle_count >= 10 /\ r.vehicle_count <= 59
    /\ r.congestion_level =
          (IF r.vehicle_count < 20 THEN 0
           ELSE IF r.vehicle_count < 35 THEN 1 ELSE 2)
    /\ r.confidence = 80
    /\ r.source = "mock"

\* C27 as stated: every synthetic Reading has vehicle_count in [10, 59], the
\* tier of its count, confidence 0.8 and the synthetic tag, and no Reading
\* the generator can return in a higher tier is faster than it.
C27_HigherTierNeverFaster ==
    MockReturned =>
        /\ MockReadingShape(generated[1])
        /\ \A other \in MockReadings :
              other.congestion_level > generated[1].congestion_level =>
                  other.avg_speed <= generated[1].avg_speed

\* C27 amended: the shape is as stated, and the speed of a Reading lies in
\* [35, 49] in tier 0, [20, 34] in tier 1 and [10, 24] in tier 2, so both
\* ends of the range fall as the tier rises and no tier-1 or tier-2 Reading
\* is faster than a tier-0 Reading, while tier 2 and tier 1 share the speeds
\* 20..24.
C27_SpeedRangeFallsWithTier ==
    MockReturned =>
        LET r == generated[1]
        IN /\ MockReadingShape(r)
           /\ r.congestion_level = 0 => (r.avg_speed >= 35 /\ r.avg_speed <= 49)
           /\ r.congestion_level = 1 => (r.avg_speed >= 20 /\ r.avg_speed <= 34)
           /\ r.congestion_level = 2 => (r.avg_speed >= 10 /\ r.avg_speed <= 24)
           /\ \A other \in MockReadings :
                 (other.congestion_level > 0 /\ r.congestion_level = 0) =>
                     other.avg_speed < r.avg_speed

\* A heavy Reading at the top of its speed range: faster than the slowest
\* moderate Reading.
C27_Witness ==
    /\ MockReturned
    /\ generated[1].congestion_level = 2
    /\ generated[1].vehicle_count = 35
    /\ generated[1].avg_speed = 24

PredictionsReturned == generated # None /\ rand[1].kind = "predictions"

\* Every volume the generator can predict at an hour of the given bucket.
BucketVolumes(bucket) ==
    {d + BucketBase(bucket) : d \in 0..(BucketSpan(bucket) - 1)}

\* C28: the generator returns 4 estimates with offsets 15, 30, 45, 60; a
\* rush-hour volume is greater than every midday volume and a midday volume
\* greater than every off-peak volume; the label of each estimate is high
\* above 35, medium above 20, else low.
C28_PredictionShape ==
    PredictionsReturned =>
        LET p == generated[1]
            hour == rand[1].hour
            rush == hour \in {7, 8, 9, 17, 18, 19}
            midday == hour \in 10..16
        IN /\ Len(p) = 4
           /\ \A k \in 1..4 : p[k].time_offset = 15 * k
           /\ \A k \in 1..Len(p) :
                 /\ rush => \A v \in BucketVolumes("midday") \cup BucketVolumes("offpeak") :
                               p[k].predicted_vehicles > v
                 /\ midday => /\ \A v \in BucketVolumes("offpeak") :
                                    p[k].predicted_vehicles > v
                              /\ \A v \in BucketVolumes("rush") :
                                    p[k].predicted_vehicles < v
                 /\ (~rush /\ ~midday) =>
                       \A v \in BucketVolumes("midday") \cup BucketVolumes("rush") :
                           p[k].predicted_vehicles < v
                 /\ p[k].congestion_risk =
                       (IF p[k].predicted_vehicles > 35 THEN "high"
                        ELSE IF p[k].predicted_vehicles > 20 THEN "medium"
                        ELSE "low")

\* A rush-hour call whose estimates sit on both sides of the high threshold
\* and at the bottom of the rush range.
C28_Witness ==
    /\ PredictionsReturned
    /\ rand[1].hour = 17
    /\ generated[1][1].predicted_vehicles = 30
    /\ generated[1][2].predicted_vehicles = 35
    /\ generated[1][2].congestion_risk = "medium"
    /\ generated[1][3].predicted_vehicles = 36
    /\ generated[1][3].congestion_risk = "high"

(***************************************************************************)
(* Camera health tracker: simulateCameraHealthChecks (src/app.js 829-900)  *)
(* and simulateHealthCheck (902-934).                                      *)
(***************************************************************************)
CameraOrder == <<"cam1", "cam2">>     \* the order CameraFeed.find() returns
Cameras == {CameraOrder[i] : i \in 1..Len(CameraOrder)}
Statuses == {"active", "error", "offline", "maintenance"}

\* A CameraFeed document is modelled by its status and health.error_count;
\* the other fields of health (last_ping, latency_ms, connection_quality,
\* frame_rate_actual, uptime_percentage) are written by every probe and read by
\* no branch of the tracker.
\*
\* simulateHealthCheck: success is Math.random() < successRate, and every
\* successRate the function picks (0.95, 0.1, 0.3, 0.8) lies strictly between
\* 0 and 1, so both outcomes are possible for a camera of any status.
simulateHealthCheck(camera) == BOOLEAN

\* Lines 850-881 on the in-memory document, for a probe outcome: the document
\* afterwards and the CameraEvents it constructs (none or one).
\* A tracker that declares the error one failure early (>= instead of >).
ProbeFailureEarly(cid, camera) ==
    LET n == camera.error_count + 1 IN
    IF n >= ErrorThreshold
    THEN [doc |-> [status |-> "error", error_count |-> n],
          events |-> <<[camera_id |-> cid, event_type |-> "connection_lost",
                       details |-> [error_count |-> n]]>>]
    ELSE [doc |-> [camera EXCEPT !.error_count = n], events |-> <<>>]

ProbeFailure(cid, camera) ==
    LET n == camera.error_count + 1 IN
    IF n > ErrorThreshold
    THEN [doc |-> [status |-> "error", error_count |-> n],
          events |-> <<[camera_id |-> cid, event_type |-> "connection_lost",
                       details |-> [error_count |-> n]]>>]
    ELSE [doc |-> [camera EXCEPT !.error_count = n], events |-> <<>>]

\* A tracker that also recovers a camera in maintenance.
ProbeSuccessAnyStatus(cid, camera) ==
    IF camera.status # "active"
    THEN [doc |-> [status |-> "active", error_count |-> 0],
          events |-> <<[camera_id |-> cid, event_type |-> "connection_restored",
                       details |-> [previous_status |-> camera.status]]>>]
    ELSE [doc |-> camera, events |-> <<>>]

ProbeSuccess(cid, camera) ==
    IF camera.status = "error" \/ camera.status = "offline"
    THEN [doc |-> [status |-> "active", error_count |-> 0],
          events |-> <<[camera_id |-> cid, event_type |-> "connection_restored",
                       details |-> [previous_status |-> camera.status]]>>]
    ELSE [doc |-> camera, events |-> <<>>]

ApplyProbe(cid, camera, success) ==
    IF success THEN ProbeSuccess(cid, camera) ELSE ProbeFailure(cid, camera)

\* const cameras = await CameraFeed.find(): the call starts and reads every
\* camera; a rejected find() is caught at line 896 and the call returns 0.
HealthFind(ok) ==
    /\ hp.pc = "idle"
    /\ passes < MaxPasses
    /\ passes' = passes + 1
    /\ hp' = IF ok
             THEN [pc |-> "probe",
                   loaded |-> [i \in 1..Len(CameraOrder) |-> cameraFeed[CameraOrder[i]]],
                   docs |-> [i \in 1..Len(CameraOrder) |-> cameraFeed[CameraOrder[i]]],
                   idx |-> 1, success |-> FALSE, healthUpdates |-> 0,
                   returned |-> hp.returned]
             ELSE [HealthIdle EXCEPT !.returned = Some(0)]
    /\ UNCHANGED <<cameraFeed, cameraEvents, probeLog, cameraFeed0, faults,
                   healthEmits, ruleVars, sideVars, serverVars, storeVars,
                   cronVars, httpVars>>

\* Lines 836-881 for the camera at idx: the probe, the update of the in-memory
\* document and, when the status changes, await event.save(). A rejected
\* event.save() leaves the loop for the catch of line 896: return 0.
HealthProbe(success, saved) ==
    /\ hp.pc = "probe"
    /\ success \in simulateHealthCheck(hp.docs[hp.idx])
    /\ LET cid == CameraOrder[hp.idx]
           r == ApplyProbe(cid, hp.docs[hp.idx], success)
       IN
       IF r.events = <<>>
       THEN /\ saved
            /\ hp' = [hp EXCEPT !.pc = "save", !.docs[hp.idx] = r.doc,
                                   !.success = success]
            /\ UNCHANGED <<cameraEvents, faults>>
       ELSE IF saved
       THEN /\ cameraEvents' = cameraEvents \o r.events
            /\ hp' = [hp EXCEPT !.pc = "save", !.docs[hp.idx] = r.doc,
                                   !.success = success]
            /\ UNCHANGED faults
       ELSE /\ faults < MaxFaults
            /\ faults' = faults + 1
            /\ hp' = [HealthIdle EXCEPT !.returned = Some(0)]
            /\ UNCHANGED cameraEvents
    /\ UNCHANGED <<cameraFeed, probeLog, cameraFeed0, passes, healthEmits,
                   ruleVars, sideVars, serverVars, storeVars, cronVars,
                   httpVars>>

\* What camera.save() writes: health is reassigned as a whole at line 840, so
\* health.error_count is always written; status is written when it was
\* assigned a value other than the one loaded.
SavedCamera(stored, loaded, doc) ==
    [status |-> IF doc.status # loaded.status THEN doc.status ELSE stored.status,
     error_count |-> doc.error_count]

\* await camera.save(); healthUpdates++ and, after the last camera, lines
\* 887-895: the camera-health-update emit and the return. A rejected save
\* leaves the loop for the catch of line 896: return 0.
HealthSave(ok) ==
    /\ hp.pc = "save"
    /\ LET cid == CameraOrder[hp.idx]
           n == hp.healthUpdates + 1
       IN
       IF ok
       THEN /\ cameraFeed' = [cameraFeed EXCEPT ![cid] =
                                 SavedCamera(@, hp.loaded[hp.idx], hp.docs[hp.idx])]
            /\ probeLog' = [probeLog EXCEPT ![cid] = Append(@, hp.success)]
            /\ IF hp.idx < Len(CameraOrder)
               THEN /\ hp' = [hp EXCEPT !.pc = "probe", !.idx = @ + 1,
                                        !.healthUpdates = n]
                    /\ UNCHANGED healthEmits
               ELSE /\ hp' = [HealthIdle EXCEPT !.returned = Some(n)]
                    /\ healthEmits' = Append(healthEmits, n)
            /\ UNCHANGED faults
       ELSE /\ faults < MaxFaults
            /\ faults' = faults + 1
            /\ hp' = [HealthIdle EXCEPT !.returned = Some(0)]
            /\ UNCHANGED <<cameraFeed, probeLog, healthEmits>>
    /\ UNCHANGED <<cameraEvents, cameraFeed0, passes, ruleVars, sideVars,
                   serverVars, storeVars, cronVars, httpVars>>

\* The cameras the seeders left in the collection: any status, no failure
\* counted yet.
InitHealth ==
    /\ cameraFeed \in [Cameras -> [status : Statuses, error_count : {0}]]
    /\ cameraFeed0 = cameraFeed
    /\ cameraEvents = <<>>
    /\ hp = HealthIdle
    /\ probeLog = [c \in Cameras |-> <<>>]
    /\ passes = 0
    /\ faults = 0
    /\ healthEmits = <<>>
    /\ RuleQuiet
    /\ StoreQuiet
    /\ CronQuiet
    /\ HttpQuiet
    /\ SideQuiet
    /\ ServerQuiet

NextHealth ==
    \/ \E ok \in BOOLEAN : HealthFind(ok)
    \/ \E success \in BOOLEAN, saved \in BOOLEAN : HealthProbe(success, saved)
    \/ \E ok \in BOOLEAN : HealthSave(ok)

SpecHealth == InitHealth /\ [][NextHealth]_vars

(***************************************************************************)
(* Claims about the health tracker, checked under SpecHealth.              *)
(***************************************************************************)
AllFailed(log) == \A i \in 1..Len(log) : ~log[i]

EventsOf(c, type) ==
    {i \in 1..Len(cameraEvents) :
        cameraEvents[i].camera_id = c /\ cameraEvents[i].event_type = type}

StartsActive(c) ==
    cameraFeed0[c].status = "active" /\ cameraFeed0[c].error_count = 0

\* No probe of camera c is between its event.save() and its camera.save().
Settled(c) == ~(hp.pc = "save" /\ CameraOrder[hp.idx] = c)

\* C2: a camera that starts active with failure count 0 and whose probes have
\* all failed is not in error before its 4th failed probe, is in error at the
\* 4th, and exactly one connection_lost Event is stored for it at that point,
\* before its next probe (in runs where every storage write of the tracker
\* succeeded).
C2_ErrorAtFourthFailure ==
    \A c \in Cameras :
        (faults = 0 /\ StartsActive(c) /\ AllFailed(probeLog[c])) =>
            /\ Len(probeLog[c]) < 4 =>
                  /\ cameraFeed[c].status = "active"
                  /\ Settled(c) => EventsOf(c, "connection_lost") = {}
            /\ Len(probeLog[c]) = 4 =>
                  /\ cameraFeed[c].status = "error"
                  /\ Settled(c) => Cardinality(EventsOf(c, "connection_lost")) = 1

\* C2 witness: a camera that started active has failed 4 probes in a row.
C2_Witness ==
    \E c \in Cameras :
        /\ faults = 0
        /\ StartsActive(c)
        /\ AllFailed(probeLog[c])
        /\ Len(probeLog[c]) = 4
        /\ Settled(c)
        /\ cameraFeed[c].status = "error"
        /\ Cardinality(EventsOf(c, "connection_lost")) = 1

RestoredEvent(cid, previous) ==
    [camera_id |-> cid, event_type |-> "connection_restored",
     details |-> [previous_status |-> previous]]

\* C3: a successful probe of a camera in error or offline sets the failure
\* count to 0 and the status to active and stores exactly one
\* connection_restored Event carrying the previous status; a successful probe
\* of a camera in any other status stores no Event and leaves the status as
\* it was; the camera saved afterwards has that status.
C3_SuccessRestores ==
    [][ /\ (hp.pc = "probe" /\ hp'.pc = "save" /\ hp'.success) =>
            LET cid == CameraOrder[hp.idx]
                before == hp.docs[hp.idx]
                after == hp'.docs[hp.idx]
            IN  IF before.status \in {"error", "offline"}
                THEN /\ after = [status |-> "active", error_count |-> 0]
                     /\ cameraEvents' =
                            Append(cameraEvents, RestoredEvent(cid, before.status))
                ELSE /\ after.status = before.status
                     /\ cameraEvents' = cameraEvents
        /\ (hp.pc = "save" /\ hp.success /\ probeLog' # probeLog) =>
            LET cid == CameraOrder[hp.idx] IN
                IF cameraFeed[cid].status \in {"error", "offline"}
                THEN cameraFeed'[cid] = [status |-> "active", error_count |-> 0]
                ELSE cameraFeed'[cid].status = cameraFeed[cid].status
      ]_vars

\* C3 witness: an offline camera was probed successfully and saved; it is
\* active with failure count 0 and its one Event carries "offline".
C3_Witness ==
    \E c \in Cameras :
        /\ cameraFeed0[c].status = "offline"
        /\ probeLog[c] = <<TRUE>>
        /\ cameraFeed[c] = [status |-> "active", error_count |-> 0]
        /\ \E i \in 1..Len(cameraEvents) :
              cameraEvents[i] = RestoredEvent(c, "offline")
        /\ Cardinality(EventsOf(c, "connection_restored")) = 1

\* C4: for a camera that starts with failure count 0 and a status other than
\* error, whenever its status is error its failure count is greater than 3
\* (in the stored document and in the document a running pass holds).
C4_ErrorImpliesCount ==
    \A c \in Cameras :
        cameraFeed0[c].status # "error" =>
            /\ cameraFeed[c].status = "error" => cameraFeed[c].error_count > 3
            /\ \A i \in 1..Len(hp.docs) :
                  (CameraOrder[i] = c /\ hp.docs[i].status = "error") =>
                      hp.docs[i].error_count > 3

\* C4 witness: a camera that did not start in error is in error.
C4_Witness ==
    \E c \in Cameras :
        /\ cameraFeed0[c].status # "error"
        /\ cameraFeed[c].status = "error"
        /\ cameraFeed[c].error_count > 3

\* C5: a camera in maintenance stays in maintenance whatever its probes give,
\* and no camera is put into maintenance by the tracker.
C5_MaintenanceStays ==
    \A c \in Cameras :
        cameraFeed[c].status = "maintenance" <=> cameraFeed0[c].status = "maintenance"

\* C21: the failure count counts consecutive failures: after a successful
\* probe of a camera, in any status, its stored failure count is 0, so a
\* camera in error that did not start in error has failed its last 4 probes.
C21_CountIsConsecutive ==
    \A c \in Cameras :
        LET log == probeLog[c]
            n == Len(log)
        IN faults = 0 =>
            /\ (n > 0 /\ log[n]) => cameraFeed[c].error_count = 0
            /\ (cameraFeed0[c].status # "error" /\ cameraFeed[c].status = "error") =>
                  (n >= 4 /\ AllFailed(SubSeq(log, n - 3, n)))

\* The Events stored for camera c, in the order they were stored.
CameraEventsOf(c) == SelectSeq(cameraEvents, LAMBDA e : e.camera_id = c)

\* C22: Events are stored on status transitions only: a connection_lost
\* Event is stored only by a probe that takes the camera into error from
\* another status, so none is stored for a camera that is in error already
\* and no two connection_lost Events of a camera follow each other without
\* a connection_restored Event between them.
C22_EventsOnTransitionsOnly ==
    \A c \in Cameras :
        LET ev == CameraEventsOf(c) IN
        faults = 0 =>
            /\ \A i \in 1..(Len(ev) - 1) :
                  ~(ev[i].event_type = "connection_lost"
                      /\ ev[i + 1].event_type = "connection_lost")
            /\ (cameraFeed0[c].status = "error" /\ ev # <<>>) =>
                  ev[1].event_type # "connection_lost"

(***************************************************************************)
(* The scheduled refresh cycles: setupRealTimeUpdates (src/app.js 68-124), *)
(* updateRealTimeTrafficData (1008-1050), updateRealCameraAnalytics        *)
(* (1053-1080).  node-cron runs the callback of a schedule at every tick,  *)
(* whether or not the promise of an earlier run has settled.               *)
(***************************************************************************)
IntersectionOrder == <<"int1", "int2">>   \* the order Intersection.find() returns
Intersections == {IntersectionOrder[i] : i \in 1..Len(IntersectionOrder)}
Cadences == {"traffic", "camera", "analytics", "health"}

\* What realTrafficService.getRealTrafficData resolves with: a Reading or null.
ServiceReadings ==
    {[vehicle_count |-> 40, congestion_level |-> 2, avg_speed |-> 15]}
getRealTrafficData == {None} \cup {Some(r) : r \in ServiceReadings}

\* What realCameraService.getRealTimeAnalytics resolves with.
getRealTimeAnalytics == {None, Some([summary |-> "summary", detections |-> "detections"])}

\* What realCameraService.updateAllCamerasWithRealData resolves with.
updateAllCamerasWithRealData == 0..Len(CameraOrder)

RemoveAt(seq, k) == SubSeq(seq, 1, k - 1) \o SubSeq(seq, k + 1, Len(seq))

\* Intersection.find({ status: 'active' })
ActiveIntersections ==
    SelectSeq(IntersectionOrder, LAMBDA i : intersections[i] = "active")

\* A read of the cameras that does not look at the status.
EveryCamera == CameraOrder

\* CameraFeed.find({ status: 'active' })
ActiveCameras ==
    SelectSeq(CameraOrder, LAMBDA c : cameraFeed[c].status = "active")

\* A cron callback that has just begun.
Callback(cadence, pc) ==
    [cadence |-> cadence, n |-> ticks + 1, pc |-> pc, list |-> <<>>, idx |-> 0,
     cur |-> None, updatedCount |-> 0, fetched |-> <<>>, published |-> <<>>,
     failed |-> <<>>]

\* The record of a callback that ended: returned is what the cycle function
\* returned (if it returned), caught the error the callback's catch logged.
Ended(cb, returned, caught) ==
    [cadence |-> cb.cadence, n |-> cb.n, list |-> cb.list,
     fetched |-> cb.fetched, published |-> cb.published, failed |-> cb.failed,
     returned |-> returned, caught |-> caught]

\* The entity at idx is done: the loop goes to the next one, or ends and the
\* function returns updatedCount.
Advance(k, cb) ==
    IF cb.idx < Len(cb.list)
    THEN /\ running' = [running EXCEPT ![k] = [cb EXCEPT !.idx = @ + 1, !.pc = "fetch",
                                                         !.cur = None]]
         /\ UNCHANGED finished
    ELSE /\ running' = RemoveAt(running, k)
         /\ finished' = Append(finished, Ended(cb, Some(cb.updatedCount), None))

\* The catch of the cycle function: return 0.
Abort(k, cb) ==
    /\ running' = RemoveAt(running, k)
    /\ finished' = Append(finished, Ended(cb, Some(0), None))

\* cron.schedule(`*/${updateInterval} * * * *`, ...) fires: the callback
\* calls updateRealTimeTrafficData, which awaits Intersection.find.
TrafficTick ==
    /\ ticks < MaxTicks
    /\ ticks' = ticks + 1
    /\ running' = Append(running, Callback("traffic", "find"))
    /\ UNCHANGED <<finished, ruleVars, sideVars, serverVars, healthVars,
                   faults, storeVars, httpVars>>

\* const intersections = await Intersection.find({ status: 'active' })
TrafficFind(k, ok) ==
    /\ running[k].cadence = "traffic"
    /\ running[k].pc = "find"
    /\ IF ok
       THEN LET cb == [running[k] EXCEPT !.list = ActiveIntersections] IN
            Advance(k, cb)
       ELSE Abort(k, running[k])
    /\ UNCHANGED <<ticks, ruleVars, sideVars, serverVars, healthVars, faults,
                   storeVars, httpVars>>

\* const trafficData = await realTrafficService.getRealTrafficData(id)
TrafficFetch(k, data) ==
    /\ running[k].cadence = "traffic"
    /\ running[k].pc = "fetch"
    /\ data \in getRealTrafficData
    /\ LET cb == [running[k] EXCEPT !.fetched = Append(@, running[k].list[running[k].idx])]
       IN  IF data = None
           THEN Advance(k, cb)
           ELSE /\ running' = [running EXCEPT ![k] = [cb EXCEPT !.pc = "save", !.cur = data]]
                /\ UNCHANGED finished
    /\ UNCHANGED <<ticks, ruleVars, sideVars, serverVars, healthVars, faults,
                   storeVars, httpVars>>

\* new TrafficData({...}) of lines 1019-1027
RealApiReading(id, data) ==
    [intersection_id |-> id, vehicle_count |-> data.vehicle_count,
     avg_speed |-> data.avg_speed, congestion_level |-> data.congestion_level,
     data_source |-> "real_api"]

\* The traffic-update message of lines 1032-1039
TrafficUpdate(id, data, source) ==
    [event |-> "traffic-update", id |-> id,
     data |-> [vehicle_count |-> data.vehicle_count, avg_speed |-> data.avg_speed,
               congestion_level |-> data.congestion_level, data_source |-> source]]

\* A cycle that publishes the Reading before it awaits the save.
TrafficSaveEmitFirst(k, ok) ==
    /\ running[k].cadence = "traffic"
    /\ running[k].pc = "save"
    /\ LET cb == running[k]
           id == cb.list[cb.idx]
       IN  /\ emitted' = Append(emitted, TrafficUpdate(id, cb.cur[1], "real_api"))
           /\ IF ok
              THEN /\ trafficData' = Append(trafficData, RealApiReading(id, cb.cur[1]))
                   /\ Advance(k, [cb EXCEPT !.updatedCount = @ + 1,
                                            !.published = Append(@, id)])
                   /\ UNCHANGED faults
              ELSE /\ faults < MaxFaults
                   /\ faults' = faults + 1
                   /\ Abort(k, [cb EXCEPT !.failed = Append(@, id)])
                   /\ UNCHANGED trafficData
    /\ UNCHANGED <<ticks, ruleVars, sideVars, serverVars, healthVars,
                   intersections, signalTimings, activityLog, httpVars>>

\* await newTrafficData.save(); io.emit('traffic-update', ...); updatedCount++.
\* A rejected save leaves the loop for the catch of line 1046: return 0.
TrafficSave(k, ok) ==
    /\ running[k].cadence = "traffic"
    /\ running[k].pc = "save"
    /\ LET cb == running[k]
           id == cb.list[cb.idx]
       IN  IF ok
           THEN /\ trafficData' = Append(trafficData, RealApiReading(id, cb.cur[1]))
                /\ emitted' = Append(emitted, TrafficUpdate(id, cb.cur[1], "real_api"))
                /\ Advance(k, [cb EXCEPT !.updatedCount = @ + 1,
                                         !.published = Append(@, id)])
                /\ UNCHANGED faults
           ELSE /\ faults < MaxFaults
                /\ faults' = faults + 1
                /\ Abort(k, [cb EXCEPT !.failed = Append(@, id)])
                /\ UNCHANGED <<trafficData, emitted>>
    /\ UNCHANGED <<ticks, ruleVars, sideVars, serverVars, healthVars,
                   intersections, signalTimings, activityLog, httpVars>>

\* cron.schedule('*/3 * * * *', ...) fires: the callback calls
\* updateRealCameraAnalytics, which awaits CameraFeed.find.
AnalyticsTick ==
    /\ ticks < MaxTicks
    /\ ticks' = ticks + 1
    /\ running' = Append(running, Callback("analytics", "find"))
    /\ UNCHANGED <<finished, ruleVars, sideVars, serverVars, healthVars,
                   faults, storeVars, httpVars>>

\* const activeCameras = await CameraFeed.find({ status: 'active' })
AnalyticsFind(k, ok) ==
    /\ running[k].cadence = "analytics"
    /\ running[k].pc = "find"
    /\ IF ok
       THEN LET cb == [running[k] EXCEPT !.list = ActiveCameras] IN
            Advance(k, cb)
       ELSE Abort(k, running[k])
    /\ UNCHANGED <<ticks, ruleVars, sideVars, serverVars, healthVars, faults,
                   storeVars, httpVars>>

\* await realCameraService.getRealTimeAnalytics(camera.id) and, for a result,
\* io.emit('camera-analytics-update', ...); updatedCount++
AnalyticsFetch(k, data) ==
    /\ running[k].cadence = "analytics"
    /\ running[k].pc = "fetch"
    /\ data \in getRealTimeAnalytics
    /\ LET cb == [running[k] EXCEPT !.fetched = Append(@, running[k].list[running[k].idx])]
           id == cb.list[cb.idx]
       IN  IF data = None
           THEN /\ Advance(k, cb)
                /\ UNCHANGED emitted
           ELSE /\ emitted' = Append(emitted, [event |-> "camera-analytics-update",
                                               id |-> id, data |-> data[1]])
                /\ Advance(k, [cb EXCEPT !.updatedCount = @ + 1,
                                         !.published = Append(@, id)])
    /\ UNCHANGED <<ticks, ruleVars, sideVars, serverVars, healthVars, faults,
                   intersections, trafficData, signalTimings, activityLog,
                   httpVars>>

\* cron.schedule('*/5 * * * *', ...) of line 82 fires: the callback awaits
\* realCameraService.updateAllCamerasWithRealData().
CameraTick ==
    /\ ticks < MaxTicks
    /\ ticks' = ticks + 1
    /\ running' = Append(running, Callback("camera", "service"))
    /\ UNCHANGED <<finished, ruleVars, sideVars, serverVars, healthVars,
                   faults, storeVars, httpVars>>

\* The service call settles: io.emit('realCameraUpdate', ...) when it
\* resolved, the catch of line 94 when it rejected.
CameraDone(k, ok, updatedCount) ==
    /\ running[k].cadence = "camera"
    /\ running[k].pc = "service"
    /\ updatedCount \in updateAllCamerasWithRealData
    /\ running' = RemoveAt(running, k)
    /\ IF ok
       THEN /\ emitted' = Append(emitted, [event |-> "realCameraUpdate", id |-> "all",
                                           data |-> [updatedCameras |-> updatedCount,
                                                     source |-> "real_apis"]])
            /\ finished' = Append(finished, Ended(running[k], Some(updatedCount), None))
       ELSE /\ updatedCount = 0
            /\ finished' = Append(finished, Ended(running[k], None, Some("Error")))
            /\ UNCHANGED emitted
    /\ UNCHANGED <<ticks, ruleVars, sideVars, serverVars, healthVars, faults,
                   intersections, trafficData, signalTimings, activityLog,
                   httpVars>>

\* cron.schedule('*/5 * * * *', ...) of line 111 fires: the callback evaluates
\* simulateCameraHealthUpdates, a name app.js never defines (the tracker is
\* simulateCameraHealthChecks): a ReferenceError, caught at line 116.
HealthTick ==
    /\ ticks < MaxTicks
    /\ ticks' = ticks + 1
    /\ finished' = Append(finished,
                          Ended(Callback("health", "call"), None, Some("ReferenceError")))
    /\ UNCHANGED <<running, ruleVars, sideVars, serverVars, healthVars,
                   faults, storeVars, httpVars>>

\* The collections when the scheduler is set up: entities of any status, no
\* Reading yet.
InitCollections ==
    /\ intersections \in [Intersections -> Statuses]
    /\ cameraFeed \in [Cameras -> [status : {"active", "offline"}, error_count : {0}]]
    /\ cameraFeed0 = cameraFeed
    /\ cameraEvents = <<>>
    /\ hp = HealthIdle
    /\ probeLog = [c \in Cameras |-> <<>>]
    /\ passes = 0
    /\ healthEmits = <<>>
    /\ faults = 0
    /\ trafficData = <<>>
    /\ signalTimings = <<>>
    /\ activityLog = <<>>
    /\ emitted = <<>>
    /\ RuleQuiet
    /\ CronQuiet
    /\ HttpQuiet
    /\ SideQuiet

InitCycle == InitCollections /\ ServerQuiet

NextCycle ==
    \/ TrafficTick
    \/ AnalyticsTick
    \/ CameraTick
    \/ HealthTick
    \/ \E k \in 1..Len(running), ok \in BOOLEAN : TrafficFind(k, ok)
    \/ \E k \in 1..Len(running), data \in getRealTrafficData : TrafficFetch(k, data)
    \/ \E k \in 1..Len(running), ok \in BOOLEAN : TrafficSave(k, ok)
    \/ \E k \in 1..Len(running), ok \in BOOLEAN : AnalyticsFind(k, ok)
    \/ \E k \in 1..Len(running), data \in getRealTimeAnalytics : AnalyticsFetch(k, data)
    \/ \E k \in 1..Len(running), ok \in BOOLEAN,
          n \in updateAllCamerasWithRealData : CameraDone(k, ok, n)

SpecCycle == InitCycle /\ [][NextCycle]_vars

(***************************************************************************)
(* Claims about the refresh cycles, checked under SpecCycle.               *)
(***************************************************************************)
\* C1: single-flight per cadence: in no reachable state are two callbacks of
\* the same cadence in progress at once (a tick that fires while a cycle of
\* its cadence is still executing is skipped).
C1_SingleFlight ==
    \A cad \in Cadences :
        Cardinality({k \in 1..Len(running) : running[k].cadence = cad}) <= 1

\* C6: partial success: a cycle that ended has processed every entity it read
\* from the registry, also when the processing of one of them failed.
C6_PartialSuccess ==
    \A i \in 1..Len(finished) :
        finished[i].cadence \in {"traffic", "analytics"} =>
            finished[i].fetched = finished[i].list

\* C7: when persisting a Reading failed in a traffic cycle, that Reading was
\* still broadcast as a traffic-update, an activity entry was logged and the
\* cycle went on to the entities after it.
C7_BroadcastDespiteFailedSave ==
    \A i \in 1..Len(finished) :
        finished[i].cadence = "traffic" =>
            \A j \in 1..Len(finished[i].failed) :
                /\ \E m \in 1..Len(finished[i].published) :
                      finished[i].published[m] = finished[i].failed[j]
                /\ \E a \in 1..Len(activityLog) :
                      activityLog[a].intersection_id = Some(finished[i].failed[j])
                /\ finished[i].fetched = finished[i].list

\* C17: a refresh cycle returns the number of entities it successfully
\* updated, also when the processing of another entity of the pass failed.
C17_ReturnsUpdatedCount ==
    \A i \in 1..Len(finished) :
        finished[i].cadence \in {"traffic", "analytics"} =>
            finished[i].returned = Some(Len(finished[i].published))

\* C20: every tick of the health-probe cadence runs the Health Tracker over
\* every camera: each health callback that ended started a pass of
\* simulateCameraHealthChecks and its catch logged no error.
C20_HealthTickRunsTracker ==
    /\ \A i \in 1..Len(finished) :
          finished[i].cadence = "health" => finished[i].caught = None
    /\ Cardinality({i \in 1..Len(finished) : finished[i].cadence = "health"})
          <= passes

(***************************************************************************)
(* The request handlers: POST /api/traffic (src/app.js 191-222),           *)
(* GET /api/optimize/:intersectionId (225-309), POST /api/detect (312-381) *)
(* and logActivity (736-750).                                              *)
(***************************************************************************)
\* The outcomes of await axios.post(..., { timeout: 5000 }): a 2xx response,
\* or a rejection (timeout, no connection, non-2xx status).
AxiosOutcomes == {"ok", "timeout", "network", "http_error"}

\* An axios that resolves for a non-2xx status (validateStatus: () => true).
AxiosRejectsUnlessHttp(outcome) == outcome \in {"timeout", "network"}

\* axios rejects unless the response status is 2xx.
AxiosRejects(outcome) == outcome # "ok"

\* What the AI service answers to /optimize.
AiOptimization ==
    [green_time |-> 60, yellow_time |-> 4, red_time |-> 25, confidence |-> 90,
     source |-> "ai", reasoning |-> "ai reasoning"]

\* The bodies POSTed to /api/traffic.
ManualReadings ==
    {[vehicle_count |-> 40, congestion_level |-> 2, avg_speed |-> 15],
     [vehicle_count |-> 12, congestion_level |-> 0, avg_speed |-> 45]}

\* TrafficData.findOne({ intersection_id }).sort({ timestamp: -1 })
LatestReading(id) ==
    LET own == SelectSeq(trafficData, LAMBDA d : d.intersection_id = id) IN
    IF own = <<>> THEN None ELSE Some(own[Len(own)])

\* logActivity: the entry is stored unless activity.save() rejects; the
\* rejection is caught inside logActivity and never reaches the caller.
logActivity(log, action, intersectionId, saved) ==
    IF saved
    THEN Append(log, [action |-> action, intersection_id |-> intersectionId,
                      category |-> "system", severity |-> "info"])
    ELSE log

Responded(status, success, data, error) ==
    [status |-> status, success |-> success, data |-> data, error |-> error]

\* POST /api/traffic with body r for intersection id.
PostTraffic(id, r, saveOk, logOk) ==
    /\ requests < MaxRequests
    /\ requests' = requests + 1
    /\ request' = Some([handler |-> "traffic", id |-> Some(id), reading |-> Some(r),
                        ai |-> "none",
                        db |-> [find |-> TRUE, saveAi |-> TRUE, saveRule |-> saveOk,
                                log |-> logOk]])
    /\ IF saveOk
       THEN /\ trafficData' = Append(trafficData,
                  [intersection_id |-> id, vehicle_count |-> r.vehicle_count,
                   avg_speed |-> r.avg_speed, congestion_level |-> r.congestion_level,
                   data_source |-> "manual"])
            /\ activityLog' = logActivity(activityLog, "Traffic Data Updated", Some(id), logOk)
            /\ emitted' = Append(emitted,
                  [event |-> "traffic-update", id |-> id,
                   data |-> [vehicle_count |-> r.vehicle_count, avg_speed |-> r.avg_speed,
                             congestion_level |-> r.congestion_level]])
            /\ response' = Some(Responded(200, TRUE, None, None))
       ELSE /\ response' = Some(Responded(500, FALSE, None, Some("save rejected")))
            /\ UNCHANGED <<trafficData, activityLog, emitted>>
    /\ UNCHANGED <<intersections, signalTimings, ruleVars, sideVars,
                   serverVars, healthVars, faults, cronVars>>

\* The baseline plan of lines 235-242.
\* A baseline plan with the rule-based confidence.
defaultOptimizationAsRule ==
    [green_time |-> 45, yellow_time |-> 3, red_time |-> 30, confidence |-> 70,
     source |-> "rule-based", reasoning |-> "No traffic data available, using default timing"]

defaultOptimization ==
    [green_time |-> 45, yellow_time |-> 3, red_time |-> 30, confidence |-> 50,
     source |-> "default", reasoning |-> "No traffic data available, using default timing"]

\* new SignalTiming({...}) of lines 258-268
AiTiming(id, data) ==
    [intersection_id |-> id, phase_name |-> "AI Optimized",
     green_time |-> data.green_time, yellow_time |-> data.yellow_time,
     red_time |-> data.red_time, is_ai_optimized |-> TRUE,
     optimization_confidence |-> data.confidence,
     optimization_reason |-> data.reasoning, is_active |-> TRUE]

\* new SignalTiming({...}) of lines 285-295
RuleTiming(id, optimization) ==
    [intersection_id |-> id, phase_name |-> "Rule-based",
     green_time |-> optimization.green_time, yellow_time |-> optimization.yellow_time,
     red_time |-> optimization.red_time, is_ai_optimized |-> FALSE,
     optimization_confidence |-> optimization.confidence,
     optimization_reason |-> optimization.reasoning, is_active |-> TRUE]

\* GET /api/optimize/:intersectionId.  db gives the outcome of each awaited
\* storage call: find (findOne), saveAi and saveRule (signalTiming.save() of
\* the two branches), log (activity.save()).
Optimize(id, ai, db) ==
    /\ requests < MaxRequests
    /\ requests' = requests + 1
    /\ LET latest == LatestReading(id) IN
       /\ request' = Some([handler |-> "optimize", id |-> Some(id), reading |-> latest,
                           ai |-> ai, db |-> db,
                           \* whether axios.post of line 251 is reached
                           called |-> db.find /\ latest # None])
       /\ IF ~db.find
          THEN \* the outer catch
               /\ response' = Some(Responded(500, FALSE, None, Some("findOne rejected")))
               /\ UNCHANGED <<signalTimings, activityLog>>
          ELSE IF latest = None
          THEN /\ response' = Some(Responded(200, TRUE, Some(defaultOptimization), None))
               /\ UNCHANGED <<signalTimings, activityLog>>
          ELSE IF ~AxiosRejects(ai) /\ db.saveAi
          THEN \* the try block runs to its end
               /\ signalTimings' = Append(signalTimings, AiTiming(id, AiOptimization))
               /\ activityLog' = logActivity(activityLog, "AI Optimization Applied",
                                             Some(id), db.log)
               /\ response' = Some(Responded(200, TRUE, Some(AiOptimization), None))
          ELSE \* catch (aiError): axios.post or the save of the AI plan rejected
               LET optimization == optimizeTrafficRules(latest[1]) IN
               IF db.saveRule
               THEN /\ signalTimings' = Append(signalTimings, RuleTiming(id, optimization))
                    /\ activityLog' = logActivity(activityLog,
                                                  "Rule-based Optimization Applied",
                                                  Some(id), db.log)
                    /\ response' = Some(Responded(200, TRUE, Some(optimization), None))
               ELSE \* the outer catch
                    /\ response' = Some(Responded(500, FALSE, None, Some("save rejected")))
                    /\ UNCHANGED <<signalTimings, activityLog>>
    /\ UNCHANGED <<intersections, trafficData, emitted, ruleVars, sideVars,
                   serverVars, healthVars, faults, cronVars>>

\* POST /api/detect.  Both branches call db.run(...), and app.js declares no
\* db: evaluating it throws a ReferenceError.  In the try block the error is
\* caught by catch (aiError), whose own db.run throws again into the outer
\* catch, so every request that carries an intersection_id is answered 500
\* before anything is stored, logged or emitted.
Detect(id, ai) ==
    /\ requests < MaxRequests
    /\ requests' = requests + 1
    /\ request' = Some([handler |-> "detect", id |-> id, reading |-> None, ai |-> ai,
                        db |-> [find |-> TRUE, saveAi |-> TRUE, saveRule |-> TRUE,
                                log |-> TRUE]])
    /\ response' = IF id = None
                   THEN Some(Responded(400, FALSE, None, Some("intersection_id required")))
                   ELSE Some(Responded(500, FALSE, None, Some("db is not defined")))
    /\ UNCHANGED <<storeVars, ruleVars, sideVars, serverVars, healthVars,
                   faults, cronVars>>

\* POST /api/force-update.  The handler's first statement evaluates
\* trafficService.updateAllIntersections(), and app.js declares no
\* trafficService (the service it requires is realTrafficService): a
\* ReferenceError, caught at line 581 and answered 500 before any refresh,
\* getLatestTrafficData, io.emit or logActivity.
ForceUpdate ==
    /\ requests < MaxRequests
    /\ requests' = requests + 1
    /\ request' = Some([handler |-> "force-update", id |-> None, reading |-> None,
                        ai |-> "none",
                        db |-> [find |-> TRUE, saveAi |-> TRUE, saveRule |-> TRUE,
                                log |-> TRUE]])
    /\ response' = Some(Responded(500, FALSE, None,
                                  Some("trafficService is not defined")))
    /\ UNCHANGED <<storeVars, ruleVars, sideVars, serverVars, healthVars,
                   faults, cronVars>>

InitRequests ==
    /\ intersections = [i \in Intersections |-> "active"]
    /\ trafficData = <<>>
    /\ signalTimings = <<>>
    /\ activityLog = <<>>
    /\ emitted = <<>>
    /\ HealthQuiet
    /\ faults = 0
    /\ RuleQuiet
    /\ CronQuiet
    /\ HttpQuiet
    /\ SideQuiet
    /\ ServerQuiet

NextRequests ==
    \/ \E id \in Intersections, r \in ManualReadings, saveOk \in BOOLEAN, logOk \in BOOLEAN :
          PostTraffic(id, r, saveOk, logOk)
    \/ \E id \in Intersections, ai \in AxiosOutcomes,
          db \in [find : BOOLEAN, saveAi : BOOLEAN, saveRule : BOOLEAN, log : BOOLEAN] :
          Optimize(id, ai, db)
    \/ \E id \in {None} \cup {Some(i) : i \in Intersections}, ai \in AxiosOutcomes :
          Detect(id, ai)
    \/ ForceUpdate

SpecRequests == InitRequests /\ [][NextRequests]_vars

(***************************************************************************)
(* Claims about the request handlers, checked under SpecRequests.          *)
(***************************************************************************)
StorageWorks(db) == db.find /\ db.saveAi /\ db.saveRule /\ db.log

\* C8: an optimize request for an entity with a stored Reading, with storage
\* working, whose gateway call fails (timeout, transport error, non-success
\* response) answers success with the rule-based plan of that Reading, and
\* the plan stored last is that plan, marked rule-based.
C8_GatewayFailureRecovered ==
    (/\ request # None
     /\ request[1].handler = "optimize"
     /\ request[1].reading # None
     /\ StorageWorks(request[1].db)
     /\ request[1].ai \in {"timeout", "network", "http_error"}) =>
        LET td == request[1].reading[1]
            id == request[1].id[1]
        IN  /\ response[1].status = 200
            /\ response[1].success
            /\ response[1].error = None
            /\ response[1].data # None
            /\ response[1].data[1].source = "rule-based"
            /\ response[1].data[1].green_time
                  = SpeedAdjust(CongestionGreen(td), td.avg_speed)
            /\ response[1].data[1].red_time = CongestionRed(td)
            /\ signalTimings # <<>>
            /\ LET st == signalTimings[Len(signalTimings)] IN
                  /\ st.intersection_id = id
                  /\ st.phase_name = "Rule-based"
                  /\ ~st.is_ai_optimized
                  /\ st.green_time = response[1].data[1].green_time
                  /\ st.red_time = response[1].data[1].red_time

\* C8 witness: the gateway returned a non-success response for an entity
\* with a stored Reading and the request was answered with a rule-based plan.
C8_Witness ==
    /\ request # None
    /\ request[1].handler = "optimize"
    /\ request[1].reading # None
    /\ StorageWorks(request[1].db)
    /\ request[1].ai = "http_error"
    /\ response[1].status = 200
    /\ response[1].data[1].source = "rule-based"
    /\ signalTimings[Len(signalTimings)].phase_name = "Rule-based"

\* C9: a detect request carrying an intersection_id is answered with success
\* and a Reading (the gateway's or a synthetic one) that has been stored and
\* broadcast as a traffic-update.
C9_DetectYieldsReading ==
    (/\ request # None
     /\ request[1].handler = "detect"
     /\ request[1].id # None) =>
        /\ response[1].status = 200
        /\ response[1].success
        /\ response[1].data # None
        /\ \E i \in 1..Len(emitted) :
              emitted[i].event = "traffic-update" /\ emitted[i].id = request[1].id[1]
        /\ LatestReading(request[1].id[1]) # None

\* C25: the fallback runs only when the gateway call itself failed: an
\* optimize request for an entity with a stored Reading whose gateway call
\* succeeded is, when answered with success, answered with the gateway's
\* plan, and the plan stored last is not a rule-based one, whatever the
\* later storage calls do.
C25_FallbackOnlyOnGatewayFailure ==
    (/\ request # None
     /\ request[1].handler = "optimize"
     /\ request[1].reading # None
     /\ request[1].db.find
     /\ request[1].ai = "ok") =>
        /\ response[1].status = 200 => response[1].data = Some(AiOptimization)
        /\ signalTimings # <<>> =>
              signalTimings[Len(signalTimings)].phase_name # "Rule-based"


\* C30: an optimize request for an entity with no stored Reading is answered
\* with the baseline plan (green 45, yellow 3, red 30, confidence 0.5,
\* provenance default) whatever the external service would answer; it does
\* not reach the call of the service, stores no plan and logs no activity.
C30_DefaultPlanWithoutSideEffects ==
    [][(/\ requests' # requests
        /\ request'[1].handler = "optimize"
        /\ request'[1].reading = None
        /\ request'[1].db.find) =>
           /\ response'[1].status = 200
           /\ response'[1].success
           /\ response'[1].data # None
           /\ response'[1].data[1].green_time = 45
           /\ response'[1].data[1].yellow_time = 3
           /\ response'[1].data[1].red_time = 30
           /\ response'[1].data[1].confidence = 50
           /\ response'[1].data[1].source = "default"
           /\ ~request'[1].called
           /\ signalTimings' = signalTimings
           /\ activityLog' = activityLog
           /\ trafficData' = trafficData
           /\ emitted' = emitted]_vars

\* The service is up and a Reading of the other entity is stored; the
\* request for the entity without one got the baseline plan.
C30_Witness ==
    /\ request # None
    /\ request[1].handler = "optimize"
    /\ request[1].id = Some("int2")
    /\ request[1].reading = None
    /\ request[1].db.find
    /\ request[1].ai = "ok"
    /\ LatestReading("int1") # None
    /\ response[1].data = Some(defaultOptimization)
    /\ signalTimings = <<>>

\* The stored plans of an intersection that are marked active.
ActivePlans(timings, id) ==
    {i \in 1..Len(timings) : timings[i].intersection_id = id /\ timings[i].is_active}

\* C31: a later plan supersedes the earlier ones without deleting them: every
\* request leaves the plans stored before it in place and unmodified, and
\* after it at most one stored plan of each intersection is marked active.
C31_LaterPlanSupersedes ==
    [][/\ Len(signalTimings') >= Len(signalTimings)
       /\ SubSeq(signalTimings', 1, Len(signalTimings)) = signalTimings
       /\ \A id \in Intersections :
             Cardinality(ActivePlans(signalTimings', id)) <= 1]_vars

\* The traffic-bulk-update messages published so far.
BulkUpdates == {i \in 1..Len(emitted) : emitted[i].event = "traffic-bulk-update"}

\* C32: a force-update request is answered with success and the updated
\* count; a request that updated at least one intersection has broadcast one
\* bulk snapshot and logged one activity entry, a request that updated none
\* has broadcast nothing.
C32_ForceUpdateRefreshes ==
    [][(requests' # requests /\ request'[1].handler = "force-update") =>
          /\ response'[1].status = 200
          /\ response'[1].success
          /\ response'[1].data # None
          /\ \/ /\ response'[1].data[1] > 0
                /\ Cardinality(BulkUpdates') = Cardinality(BulkUpdates) + 1
                /\ Len(activityLog') <= Len(activityLog) + 1
             \/ /\ response'[1].data[1] = 0
                /\ emitted' = emitted
                /\ activityLog' = activityLog]_vars

(***************************************************************************)
(* Publishing of Readings: the traffic cycle (src/app.js 1008-1050) next to *)
(* POST /api/traffic (191-222) taken one await at a time, so that a cycle  *)
(* can save and publish between the save of a manual post and its          *)
(* io.emit.                                                                *)
(***************************************************************************)

\* new TrafficData({...}) of lines 195-202
ManualReading(id, r) ==
    [intersection_id |-> id, vehicle_count |-> r.vehicle_count,
     avg_speed |-> r.avg_speed, congestion_level |-> r.congestion_level,
     data_source |-> "manual"]

\* The traffic-update message of lines 210-216
ManualUpdate(id, r) ==
    [event |-> "traffic-update", id |-> id,
     data |-> [vehicle_count |-> r.vehicle_count, avg_speed |-> r.avg_speed,
               congestion_level |-> r.congestion_level]]

\* Lines 193-207: the handler builds the Reading and awaits its save; when
\* the save resolved it calls logActivity and awaits it, when it rejected
\* the catch answers 500.
PostTrafficSave(id, r, saveOk) ==
    /\ requests < MaxPublishes
    /\ requests' = requests + 1
    /\ request' = Some([handler |-> "traffic", id |-> Some(id), reading |-> Some(r),
                        ai |-> "none",
                        db |-> [find |-> TRUE, saveAi |-> TRUE, saveRule |-> saveOk,
                                log |-> TRUE]])
    /\ IF saveOk
       THEN /\ trafficData' = Append(trafficData, ManualReading(id, r))
            /\ posting' = Append(posting, [id |-> id, r |-> r])
            /\ UNCHANGED response
       ELSE /\ response' = Some(Responded(500, FALSE, None, Some("save rejected")))
            /\ UNCHANGED <<trafficData, posting>>
    /\ UNCHANGED <<intersections, signalTimings, activityLog, emitted, ruleVars,
                   probeVars, mockVars, hq, ua, serverVars, healthVars, faults,
                   cronVars>>

\* Lines 207-218: logActivity is over (it swallows a rejected save of the
\* entry); the handler publishes the Reading and answers.
PostTrafficEmit(k, logOk) ==
    /\ k \in 1..Len(posting)
    /\ activityLog' = logActivity(activityLog, "Traffic Data Updated",
                                  Some(posting[k].id), logOk)
    /\ emitted' = Append(emitted, ManualUpdate(posting[k].id, posting[k].r))
    /\ response' = Some(Responded(200, TRUE, None, None))
    /\ posting' = RemoveAt(posting, k)
    /\ UNCHANGED <<intersections, trafficData, signalTimings, request, requests,
                   ruleVars, probeVars, mockVars, hq, ua, serverVars, healthVars,
                   faults, cronVars>>

InitPublish ==
    /\ InitCycle
    /\ \A c \in Cameras : cameraFeed[c].status = "active"
    /\ \A i \in Intersections : intersections[i] = "active"

\* The traffic cadence fires once.
PublishTick == ticks = 0 /\ TrafficTick

NextPublish ==
    \/ PublishTick
    \/ \E k \in 1..Len(running), ok \in BOOLEAN : TrafficFind(k, ok)
    \/ \E k \in 1..Len(running), data \in getRealTrafficData : TrafficFetch(k, data)
    \/ \E k \in 1..Len(running), ok \in BOOLEAN : TrafficSave(k, ok)
    \/ \E id \in Intersections, r \in ManualReadings, saveOk \in BOOLEAN :
          PostTrafficSave(id, r, saveOk)
    \/ \E k \in 1..Len(posting), logOk \in BOOLEAN : PostTrafficEmit(k, logOk)

SpecPublish == InitPublish /\ [][NextPublish]_vars

\* The values of a Reading, stored or published.
ReadingValues(d) ==
    [vehicle_count |-> d.vehicle_count, avg_speed |-> d.avg_speed,
     congestion_level |-> d.congestion_level]

\* The values of the Readings stored for id, oldest first.
StoredFor(id) ==
    LET of == SelectSeq(trafficData, LAMBDA t : t.intersection_id = id)
    IN [i \in 1..Len(of) |-> ReadingValues(of[i])]

\* The values of the traffic-updates published for id, oldest first.
PublishedFor(id) ==
    LET of == SelectSeq(emitted, LAMBDA m : m.event = "traffic-update" /\ m.id = id)
    IN [i \in 1..Len(of) |-> ReadingValues(of[i].data)]

Occurrences(seq, v) == Cardinality({i \in 1..Len(seq) : seq[i] = v})

\* C29: every Reading published as a traffic-update, by the traffic cycle
\* or by a manual post, is stored already: for each entity no values have
\* been published more often than they have been stored, so a Reading is
\* stored for every entity with a published update and the Reading stored
\* last is the one published last or a later one.
C29_PersistBeforePublish ==
    \A id \in Intersections :
        /\ \A i \in 1..Len(PublishedFor(id)) :
              Occurrences(PublishedFor(id), PublishedFor(id)[i])
                  <= Occurrences(StoredFor(id), PublishedFor(id)[i])
        /\ PublishedFor(id) # <<>> => LatestReading(id) # None

\* A manual post saved its Reading, a cycle then saved and published one
\* for the same entity, and the post published its Reading after that: the
\* update published last is older than the Reading stored last.
C29_Witness ==
    /\ Len(trafficData) = 2
    /\ trafficData[1].intersection_id = "int1"
    /\ trafficData[1].data_source = "manual"
    /\ trafficData[1].vehicle_count = 12
    /\ trafficData[2].intersection_id = "int1"
    /\ trafficData[2].data_source = "real_api"
    /\ Len(emitted) = 2
    /\ emitted[1] = TrafficUpdate("int1", trafficData[2], "real_api")
    /\ emitted[2] = ManualUpdate("int1", trafficData[1])

(***************************************************************************)
(* Two calls of simulateCameraHealthChecks (src/app.js 829-900) under way  *)
(* at once, as two firings of a schedule give when the first call has not  *)
(* returned: node-cron starts the callback at every firing.  hp is the     *)
(* call whose continuation runs next, hq the call that waits on its await. *)
(***************************************************************************)

\* The first call, or a second one while the first waits, begins.
RaceFind(ok) ==
    /\ passes < 2
    /\ HealthFind(ok)

\* The event loop takes the continuation of the other call.
Resume ==
    /\ passes = 2
    /\ hq.pc # "idle"
    /\ hp' = hq
    /\ hq' = hp
    /\ UNCHANGED <<cameraFeed, cameraEvents, probeLog, cameraFeed0, passes,
                   healthEmits, faults, ruleVars, probeVars, mockVars, posting, ua,
                   serverVars, storeVars, cronVars, httpVars>>

\* The first call waits on an await and the second firing has not come yet.
Park ==
    /\ passes = 1
    /\ hp.pc # "idle"
    /\ hq = HealthIdle
    /\ hq' = hp
    /\ hp' = HealthIdle
    /\ UNCHANGED <<cameraFeed, cameraEvents, probeLog, cameraFeed0, passes,
                   healthEmits, faults, ruleVars, probeVars, mockVars, posting, ua,
                   serverVars, storeVars, cronVars, httpVars>>

NextRace ==
    \/ \E ok \in BOOLEAN : RaceFind(ok)
    \/ \E success \in BOOLEAN, saved \in BOOLEAN : HealthProbe(success, saved)
    \/ \E ok \in BOOLEAN : HealthSave(ok)
    \/ Park
    \/ Resume

SpecRace == InitHealth /\ [][NextRace]_vars

\* The document after a probe with the given outcome, when nothing runs
\* between its read and its save.
ProbedAlone(c, camera, success) == ApplyProbe(c, camera, success).doc

\* C23: two calls of the tracker over the same camera leave the stored
\* failure count and status that the two probe outcomes give when applied one
\* after the other, in the order of their saves or in the other order (in
\* runs where every storage write succeeded).
C23_NoLostUpdate ==
    \A c \in Cameras :
        (/\ faults = 0
         /\ passes = 2
         /\ hp.pc = "idle"
         /\ hq.pc = "idle"
         /\ Len(probeLog[c]) = 2) =>
            \/ cameraFeed[c] = ProbedAlone(c, ProbedAlone(c, cameraFeed0[c], probeLog[c][1]),
                                           probeLog[c][2])
            \/ cameraFeed[c] = ProbedAlone(c, ProbedAlone(c, cameraFeed0[c], probeLog[c][2]),
                                           probeLog[c][1])

(***************************************************************************)
(* The refresh cycles next to the writers of the cameras: one firing of a  *)
(* schedule (src/app.js 68-119), one call of simulateCameraHealthChecks    *)
(* (829-900) and one call of updateCameraAnalytics (753-827), interleaved  *)
(* at their awaits.  Of a camera's analytics the model keeps               *)
(* daily_vehicle_count.                                                    *)
(***************************************************************************)

\* Line 760: the vehicle counts a camera can get, the ends of the range.
AnalyticsCounts == {AnalyticsCountBase, AnalyticsCountBase + AnalyticsCountSpan - 1}

\* updateCameraAnalytics returns n.
AnalyticsReturned(n) == [AnalyticsIdle EXCEPT !.returned = Some(n), !.written = ua.written]

\* const activeCameras = await CameraFeed.find({ status: 'active' }) of line
\* 755: the documents are read; with none the function returns 0, and a
\* rejected find is caught at line 823.
AnalyticsPassFind(ok) ==
    /\ ua.pc = "idle"
    /\ ua.returned = None
    /\ ua' = IF ok /\ ActiveCameras # <<>>
             THEN [AnalyticsIdle EXCEPT
                     !.pc = "data", !.list = ActiveCameras, !.idx = 1,
                     !.docs = [i \in 1..Len(ActiveCameras) |->
                                 [status |-> cameraFeed[ActiveCameras[i]].status,
                                  error_count |-> cameraFeed[ActiveCameras[i]].error_count,
                                  analytics |-> 0]]]
             ELSE AnalyticsReturned(0)
    /\ UNCHANGED <<healthVars, faults, storeVars, cronVars, httpVars, ruleVars,
                   probeVars, mockVars, posting, hq, serverVars>>

\* await cameraData.save() (795) and, when it resolved, lines 798-804 on the
\* in-memory camera.
AnalyticsPassData(ok, vehicleCount) ==
    /\ ua.pc = "data"
    /\ vehicleCount \in AnalyticsCounts
    /\ IF ok
       THEN /\ ua' = [ua EXCEPT !.pc = "save",
                                !.docs[ua.idx].analytics = @ + vehicleCount]
            /\ UNCHANGED faults
       ELSE /\ vehicleCount = AnalyticsCountBase
            /\ faults < MaxFaults
            /\ faults' = faults + 1
            /\ ua' = AnalyticsReturned(0)
    /\ UNCHANGED <<healthVars, storeVars, cronVars, httpVars, ruleVars,
                   probeVars, mockVars, posting, hq, serverVars>>

\* A save that writes the document as it was read.
AnalyticsSavedWhole(stored, doc) ==
    [status |-> doc.status, error_count |-> doc.error_count]

\* What camera.save() of line 806 writes of status and health: the function
\* assigned paths of camera.analytics only, and save() writes the paths that
\* were assigned.
AnalyticsSaved(stored, doc) == stored

\* await camera.save() (806); updatedCount++.
AnalyticsPassSave(ok) ==
    /\ ua.pc = "save"
    /\ LET c == ua.list[ua.idx] IN
       IF ok
       THEN /\ cameraFeed' = [cameraFeed EXCEPT ![c] = AnalyticsSaved(@, ua.docs[ua.idx])]
            /\ ua' = [ua EXCEPT !.pc = IF ua.idx < Len(ua.list) THEN "data" ELSE "emit",
                                !.idx = IF ua.idx < Len(ua.list) THEN @ + 1 ELSE @,
                                !.updatedCount = @ + 1,
                                !.written = Append(@, c)]
            /\ UNCHANGED faults
       ELSE /\ faults < MaxFaults
            /\ faults' = faults + 1
            /\ ua' = AnalyticsReturned(0)
            /\ UNCHANGED cameraFeed
    /\ UNCHANGED <<cameraEvents, hp, probeLog, cameraFeed0, passes, healthEmits,
                   storeVars, cronVars, httpVars, ruleVars, probeVars, mockVars,
                   posting, hq, serverVars>>

\* Lines 810-822: the cameras are read again, camera-analytics-update is
\* emitted, the activity logged and updatedCount returned.
AnalyticsPassEmit(ok, logOk) ==
    /\ ua.pc = "emit"
    /\ IF ok
       THEN /\ emitted' = Append(emitted,
                  [event |-> "camera-analytics-update", id |-> "all",
                   data |-> [updated_cameras |-> ua.updatedCount,
                             cameras |-> ActiveCameras]])
            /\ activityLog' = logActivity(activityLog, "Camera Analytics Update",
                                          None, logOk)
            /\ ua' = AnalyticsReturned(ua.updatedCount)
            /\ UNCHANGED faults
       ELSE /\ logOk
            /\ faults < MaxFaults
            /\ faults' = faults + 1
            /\ ua' = AnalyticsReturned(0)
            /\ UNCHANGED <<emitted, activityLog>>
    /\ UNCHANGED <<healthVars, intersections, trafficData, signalTimings,
                   cronVars, httpVars, ruleVars, probeVars, mockVars, posting,
                   hq, serverVars>>

\* One of the schedules fires, once.
SweepTick ==
    /\ ticks = 0
    /\ (TrafficTick \/ AnalyticsTick \/ CameraTick)

\* The tracker is called, once.
SweepFind(ok) ==
    /\ passes = 0
    /\ HealthFind(ok)

NextSweep ==
    \/ SweepTick
    \/ \E k \in 1..Len(running), ok \in BOOLEAN : TrafficFind(k, ok)
    \/ \E k \in 1..Len(running), data \in getRealTrafficData : TrafficFetch(k, data)
    \/ \E k \in 1..Len(running), ok \in BOOLEAN : TrafficSave(k, ok)
    \/ \E k \in 1..Len(running), ok \in BOOLEAN : AnalyticsFind(k, ok)
    \/ \E k \in 1..Len(running), data \in getRealTimeAnalytics : AnalyticsFetch(k, data)
    \/ \E k \in 1..Len(running), ok \in BOOLEAN,
          n \in updateAllCamerasWithRealData : CameraDone(k, ok, n)
    \/ \E ok \in BOOLEAN : SweepFind(ok)
    \/ \E success \in BOOLEAN, saved \in BOOLEAN : HealthProbe(success, saved)
    \/ \E ok \in BOOLEAN : HealthSave(ok)
    \/ \E ok \in BOOLEAN : AnalyticsPassFind(ok)
    \/ \E ok \in BOOLEAN, vehicleCount \in AnalyticsCounts : AnalyticsPassData(ok, vehicleCount)
    \/ \E ok \in BOOLEAN : AnalyticsPassSave(ok)
    \/ \E ok \in BOOLEAN, logOk \in BOOLEAN : AnalyticsPassEmit(ok, logOk)

SpecSweep == InitCycle /\ [][NextSweep]_vars

\* C24: only the tracker writes a camera's status and failure count: every
\* step that changes the stored status or count of a camera is the
\* camera.save() of the tracker's probe of that camera; the traffic refresh,
\* the camera data refresh, the analytics refresh and the camera.save() of
\* updateCameraAnalytics change neither, whatever the tracker does meanwhile.
C24_OnlyTrackerWritesHealth ==
    [][\A c \in Cameras :
          cameraFeed'[c] # cameraFeed[c] =>
              /\ hp.pc = "save"
              /\ CameraOrder[hp.idx] = c
              /\ probeLog'[c] = Append(probeLog[c], hp.success)
              /\ ua' = ua
              /\ running' = running]_vars

\* updateCameraAnalytics has saved cam1 from a document it read before the
\* tracker stored a failed probe of cam1: the count the tracker wrote is
\* still there.
C24_Witness ==
    /\ ua.pc # "idle"
    /\ ua.written # <<>>
    /\ ua.written[1] = "cam1"
    /\ ua.docs[1].error_count = 0
    /\ probeLog["cam1"] = <<FALSE>>
    /\ cameraFeed["cam1"].error_count = 1

\* The callbacks of a cadence, under way or ended.
CallbacksOf(cadence) ==
    {running[k] : k \in {j \in 1..Len(running) : running[j].cadence = cadence}}
        \cup {finished[k] : k \in {j \in 1..Len(finished) : finished[j].cadence = cadence}}

Elements(seq) == {seq[i] : i \in 1..Len(seq)}

\* Camera c was active when the collection was set up or has been restored
\* by the tracker since.
ActiveSometime(c) ==
    \/ cameraFeed0[c].status = "active"
    \/ EventsOf(c, "connection_restored") # {}

\* C26: a traffic or analytics cycle handles the entities that are active
\* when it reads them and no others: the list of a traffic cycle is empty
\* (nothing read) or holds exactly the active intersections, the list of an
\* analytics cycle holds every camera active from the start and no camera
\* that has not been active, what a cycle fetched or published is in its
\* list, and no Reading is stored and no update published for an entity that
\* is not active; the tracker reads the cameras of every status and, when it
\* runs to its end, has probed each of them.
C26_CyclesCoverActiveOnly ==
    /\ \A cb \in CallbacksOf("traffic") :
          /\ cb.list # <<>> =>
                Elements(cb.list) = {i \in Intersections : intersections[i] = "active"}
          /\ Elements(cb.fetched) \subseteq Elements(cb.list)
          /\ Elements(cb.published) \subseteq Elements(cb.fetched)
    /\ \A i \in 1..Len(trafficData) :
          intersections[trafficData[i].intersection_id] = "active"
    /\ \A i \in 1..Len(emitted) :
          emitted[i].event = "traffic-update" => intersections[emitted[i].id] = "active"
    /\ \A cb \in CallbacksOf("analytics") :
          /\ \A c \in Elements(cb.list) : ActiveSometime(c)
          /\ cb.list # <<>> =>
                \A c \in Cameras : cameraFeed0[c].status = "active" => c \in Elements(cb.list)
          /\ Elements(cb.fetched) \subseteq Elements(cb.list)
          /\ Elements(cb.published) \subseteq Elements(cb.fetched)
    /\ \A i \in 1..Len(emitted) :
          (emitted[i].event = "camera-analytics-update" /\ emitted[i].id \in Cameras) =>
              ActiveSometime(emitted[i].id)
    /\ hp.pc # "idle" => Len(hp.loaded) = Cardinality(Cameras)
    /\ healthEmits # <<>> => \A c \in Cameras : probeLog[c] # <<>>

\* An analytics cycle that read the cameras while cam2 was offline ended
\* having published for cam1 only; the tracker has since probed cam2 and
\* restored it.
C26_Witness ==
    /\ cameraFeed0["cam1"].status = "active"
    /\ cameraFeed0["cam2"].status = "offline"
    /\ finished # <<>>
    /\ finished[1].cadence = "analytics"
    /\ finished[1].list = <<"cam1">>
    /\ finished[1].published = <<"cam1">>
    /\ probeLog["cam2"] = <<TRUE>>
    /\ cameraFeed["cam2"].status = "active"

(***************************************************************************)
(* Startup: connectMongoDB (src/app.js 46-65) and startServer (1083-1118). *)
(***************************************************************************)
\* A connectMongoDB whose catch logs the failure and returns.
ConnectMongoDBNoExit(ok) ==
    /\ alive
    /\ boot = "connect"
    /\ boot' = "countIntersections"
    /\ connected' = ok
    /\ UNCHANGED <<alive, scheduled, listening, hubVars, ruleVars, healthVars,
                   faults, storeVars, cronVars, httpVars, sideVars>>

\* await mongoose.connect(MONGODB_URI); a rejection goes to the catch of
\* connectMongoDB: process.exit(1).
ConnectMongoDB(ok) ==
    /\ alive
    /\ boot = "connect"
    /\ IF ok
       THEN /\ connected' = TRUE
            /\ boot' = "countIntersections"
            /\ UNCHANGED alive
       ELSE /\ boot' = "exited"
            /\ alive' = FALSE
            /\ UNCHANGED connected
    /\ UNCHANGED <<scheduled, listening, hubVars, ruleVars, healthVars, faults,
                   storeVars, cronVars, httpVars, sideVars>>

\* await Intersection.countDocuments(), in the same try.
CountIntersections(ok) ==
    /\ alive
    /\ boot = "countIntersections"
    /\ IF ok
       THEN /\ boot' = "countCameras"
            /\ UNCHANGED alive
       ELSE /\ boot' = "exited"
            /\ alive' = FALSE
    /\ UNCHANGED <<connected, scheduled, listening, hubVars, ruleVars,
                   healthVars, faults, storeVars, cronVars, httpVars, sideVars>>

\* await CameraFeed.countDocuments() resolves and connectMongoDB returns:
\* startServer calls setupRealTimeUpdates() and server.listen(), then awaits
\* logActivity('System Started', ...); a rejection exits the process.
CountCameras(ok) ==
    /\ alive
    /\ boot = "countCameras"
    /\ IF ok
       THEN /\ scheduled' = TRUE
            /\ listening' = TRUE
            /\ boot' = "log"
            /\ UNCHANGED alive
       ELSE /\ boot' = "exited"
            /\ alive' = FALSE
            /\ UNCHANGED <<scheduled, listening>>
    /\ UNCHANGED <<connected, hubVars, ruleVars, healthVars, faults, storeVars,
                   cronVars, httpVars, sideVars>>

\* The activity entry of the startup is saved or not (logActivity catches
\* its own errors) and startServer returns.
LogStartup(saved) ==
    /\ alive
    /\ boot = "log"
    /\ boot' = "up"
    /\ activityLog' = logActivity(activityLog, "System Started", None, saved)
    /\ UNCHANGED <<connected, scheduled, listening, alive, hubVars, ruleVars,
                   healthVars, faults, intersections, trafficData,
                   signalTimings, emitted, cronVars, httpVars, sideVars>>

\* The registered schedules tick and their callbacks run while the process
\* lives.
Scheduled ==
    /\ alive
    /\ scheduled
    /\ NextCycle

InitStartup ==
    /\ InitCollections
    /\ boot = "connect"
    /\ connected = FALSE
    /\ scheduled = FALSE
    /\ listening = FALSE
    /\ alive = TRUE
    /\ HubQuiet

NextStartup ==
    \/ \E ok \in BOOLEAN : ConnectMongoDB(ok)
    \/ \E ok \in BOOLEAN : CountIntersections(ok)
    \/ \E ok \in BOOLEAN : CountCameras(ok)
    \/ \E saved \in BOOLEAN : LogStartup(saved)
    \/ Scheduled

SpecStartup == InitStartup /\ [][NextStartup]_vars

\* C19: no cadence is scheduled and the server does not listen before the
\* storage connection is established; when the connection fails the process
\* exits without ever scheduling a cycle.
C19_StartupOrdering ==
    /\ (scheduled \/ listening \/ ticks > 0 \/ running # <<>>) => connected
    /\ ~connected =>
          (boot \in {"connect", "exited"} /\ finished = <<>> /\ emitted = <<>>)
    /\ (boot = "exited") =>
          (~alive /\ ~scheduled /\ ~listening /\ ticks = 0 /\ running = <<>>)

\* C19 witness: mongoose.connect was rejected and the process has exited.
C19_Witness ==
    /\ boot = "exited"
    /\ ~connected
    /\ ~alive

(***************************************************************************)
(* Socket.IO: io.on('connection') (src/app.js 587-646) and the delivery of *)
(* io.emit / socket.emit to the connected clients.                         *)
(***************************************************************************)
Clients == {"c1", "c2"}

\* The clients that send subscribe-intersection in the runs explored; the
\* other client connects and listens.
Subscribers == {"c1"}

\* The events sent with socket.emit, to one client; every other event is
\* sent with io.emit.
SocketEvents == {"system-status", "intersection-data"}

\* The handler state of the last subscribe-intersection of a client: pc is
\* the position of its findOne(...).then(...) chain, at and pubAt the
\* lengths of the client's inbox and of emitted when the event was handled,
\* data what findOne resolved with.
NoSub == [pc |-> "none", id |-> "", at |-> 0, pubAt |-> 0, data |-> None]

\* A client: since is the length of emitted when it connected, rooms the
\* intersections whose room its socket is in, left the rooms it left with
\* the length of its inbox at that time.
NoSocket ==
    [connected |-> FALSE, since |-> 0, rooms |-> {}, left |-> {}, sub |-> NoSub]

\* socket.emit reaches its socket; io.emit reaches every socket, whatever
\* rooms it is in.
Reaches(m, c) == m.event \in SocketEvents => m.to = c

\* A delivery that drops a message equal to the one delivered before it.
RECURSIVE Distinct(_)
Distinct(seq) ==
    IF Len(seq) < 2 THEN seq
    ELSE LET front == Distinct(SubSeq(seq, 1, Len(seq) - 1)) IN
         IF seq[Len(seq)] = seq[Len(seq) - 1] THEN front
         ELSE Append(front, seq[Len(seq)])

InboxDeduplicated(c) ==
    IF ~sockets[c].connected THEN <<>>
    ELSE Distinct(SelectSeq(SubSeq(emitted, sockets[c].since + 1, Len(emitted)),
                            LAMBDA m : Reaches(m, c)))

\* The messages delivered to client c, in order: everything emitted since
\* it connected that reaches its socket.
Inbox(c) ==
    IF ~sockets[c].connected THEN <<>>
    ELSE SelectSeq(SubSeq(emitted, sockets[c].since + 1, Len(emitted)),
                   LAMBDA m : Reaches(m, c))

IsUpdate(m, id) == m.event = "traffic-update" /\ m.id = id

IsSnapshot(m, id) == m.event = "intersection-data" /\ m.id = id

\* io.on('connection'): socket.emit('system-status', ...).
Connect(c) ==
    /\ alive
    /\ ~sockets[c].connected
    /\ sockets' = [sockets EXCEPT ![c].connected = TRUE, ![c].since = Len(emitted)]
    /\ emitted' = Append(emitted, [event |-> "system-status", to |-> c])
    /\ UNCHANGED <<subscribes, bootVars, ruleVars, healthVars, faults,
                   intersections, trafficData, signalTimings, activityLog,
                   cronVars, httpVars, sideVars>>

\* socket.on('subscribe-intersection'): socket.join and the start of
\* TrafficData.findOne(...).sort(...).then(...).
Subscribe(c, id) ==
    /\ alive
    /\ sockets[c].connected
    /\ sockets[c].sub.pc \notin {"find", "then"}
    /\ subscribes < MaxSubscribes
    /\ subscribes' = subscribes + 1
    /\ sockets' = [sockets EXCEPT
          ![c].rooms = @ \cup {id},
          ![c].left = {l \in @ : l.id # id},
          ![c].sub = [pc |-> "find", id |-> id, at |-> Len(Inbox(c)),
                      pubAt |-> Len(emitted), data |-> None]]
    /\ UNCHANGED <<bootVars, ruleVars, healthVars, faults, storeVars, cronVars,
                   httpVars, sideVars>>

\* The query of the subscribe handler settles.  It resolves with the latest
\* stored Reading of the intersection (or null).  A rejection meets no
\* .catch: the unhandled rejection terminates the process (the default of
\* Node.js 15 and later) or is only warned about (Node.js 14).
SnapshotFind(c, ok, fatal) ==
    /\ alive
    /\ sockets[c].sub.pc = "find"
    /\ IF ok
       THEN /\ sockets' = [sockets EXCEPT
                  ![c].sub.pc = "then",
                  ![c].sub.data = LatestReading(sockets[c].sub.id)]
            /\ UNCHANGED alive
       ELSE /\ sockets' = [sockets EXCEPT ![c].sub.pc = "lost"]
            /\ alive' = ~fatal
    /\ UNCHANGED <<subscribes, boot, connected, scheduled, listening, ruleVars,
                   healthVars, faults, storeVars, cronVars, httpVars, sideVars>>

\* .then(data => { if (data) socket.emit('intersection-data', ...) })
SnapshotThen(c) ==
    /\ alive
    /\ sockets[c].sub.pc = "then"
    /\ sockets' = [sockets EXCEPT ![c].sub.pc = "done"]
    /\ IF sockets[c].sub.data = None
       THEN UNCHANGED emitted
       ELSE emitted' = Append(emitted,
                [event |-> "intersection-data", id |-> sockets[c].sub.id,
                 data |-> sockets[c].sub.data[1], to |-> c])
    /\ UNCHANGED <<subscribes, bootVars, ruleVars, healthVars, faults,
                   intersections, trafficData, signalTimings, activityLog,
                   cronVars, httpVars, sideVars>>

\* socket.on('unsubscribe-intersection'): socket.leave.
Unsubscribe(c, id) ==
    /\ alive
    /\ sockets[c].connected
    /\ id \in sockets[c].rooms
    /\ sockets' = [sockets EXCEPT
          ![c].rooms = @ \ {id},
          ![c].left = @ \cup {[id |-> id, at |-> Len(Inbox(c))]}]
    /\ UNCHANGED <<subscribes, bootVars, ruleVars, healthVars, faults,
                   storeVars, cronVars, httpVars, sideVars>>

\* A Reading is posted while the process lives: saved, then published with
\* io.emit('traffic-update', ...).
Publish(id, r) ==
    /\ alive
    /\ requests < MaxPublishes
    /\ PostTraffic(id, r, TRUE, TRUE)

InitHub ==
    /\ intersections = [i \in Intersections |-> "active"]
    /\ trafficData = <<>>
    /\ signalTimings = <<>>
    /\ activityLog = <<>>
    /\ emitted = <<>>
    /\ sockets = [c \in Clients |-> NoSocket]
    /\ subscribes = 0
    /\ ServerUp
    /\ HealthQuiet
    /\ faults = 0
    /\ RuleQuiet
    /\ CronQuiet
    /\ HttpQuiet
    /\ SideQuiet

NextHub ==
    \/ \E c \in Clients : Connect(c)
    \/ \E c \in Subscribers, id \in Intersections : Subscribe(c, id)
    \/ \E c \in Clients, ok \in BOOLEAN, fatal \in BOOLEAN : SnapshotFind(c, ok, fatal)
    \/ \E c \in Clients : SnapshotThen(c)
    \/ \E c \in Clients, id \in Intersections : Unsubscribe(c, id)
    \/ \E id \in Intersections, r \in ManualReadings : Publish(id, r)

SpecHub == InitHub /\ [][NextHub]_vars

(***************************************************************************)
(* Claims about the delivery to clients, checked under SpecHub.            *)
(***************************************************************************)
\* C13: a message published for an entity is delivered to the clients
\* subscribed to that entity's topic and to no other client, and a client
\* that unsubscribed from the topic receives no further message published
\* for it.
C13_DeliveryFollowsSubscription ==
    \A c \in Clients :
        LET box == Inbox(c) IN
        \A l \in sockets[c].left :
            \A k \in (l.at + 1)..Len(box) : ~IsUpdate(box[k], l.id)

\* The traffic-update messages for intersection id among the messages of seq
\* after position from.
UpdatesAfter(seq, from, id) ==
    SelectSeq(SubSeq(seq, from + 1, Len(seq)), LAMBDA m : IsUpdate(m, id))

\* C14: a client that subscribes after n >= 1 publishes for the entity
\* receives exactly one snapshot, equal to the most recent of them, and
\* after it the publishes that follow: no Reading published after the
\* subscribe is delivered to the client before the snapshot.
C14_SnapshotOnSubscribe ==
    \A c \in Clients :
        LET sub == sockets[c].sub
            box == Inbox(c)
            prior == UpdatesAfter(SubSeq(emitted, 1, sub.pubAt), 0, sub.id)
            snaps == {k \in (sub.at + 1)..Len(box) : IsSnapshot(box[k], sub.id)}
        IN (sub.pc # "none" /\ prior # <<>>) =>
            /\ Cardinality(snaps) <= 1
            /\ sub.pc = "done" => Cardinality(snaps) = 1
            /\ \A p \in snaps :
                  LET last == prior[Len(prior)].data IN
                  /\ box[p].data.vehicle_count = last.vehicle_count
                  /\ box[p].data.avg_speed = last.avg_speed
                  /\ box[p].data.congestion_level = last.congestion_level
            /\ \A k \in (sub.at + 1)..Len(box) :
                  IsUpdate(box[k], sub.id) => \E p \in snaps : p < k

C18_NoErrorIsFatal ==
    boot = "up" => alive

=============================================================================
